---- MODULE Spec2Model ----
(***************************************************************************)
(* Release resolution core of flickr: the reference resolver               *)
(* (internal/ref), and Controller.Execute (internal/controller) with its   *)
(* collaborators, the release ledger client and the container runtime.     *)
(*                                                                         *)
(* Go strings are sequences of one-character strings, so that              *)
(* strings.Contains, strings.HasPrefix, hex encoding and decimal           *)
(* formatting are computed character by character.  A byte is an integer   *)
(* in 0..255.                                                              *)
(***************************************************************************)
EXTENDS Integers, Sequences, FiniteSets, TLC

(***************************************************************************)
(* Go standard library functions used by the code                          *)
(***************************************************************************)

\* strings.Contains(s, substr)
Contains(s, substr) ==
    \E i \in 1..(Len(s) - Len(substr) + 1) :
        SubSeq(s, i, i + Len(substr) - 1) = substr

\* strings.HasPrefix(s, prefix)
HasPrefix(s, prefix) ==
    /\ Len(s) >= Len(prefix)
    /\ SubSeq(s, 1, Len(prefix)) = prefix

UpperLetters == <<"A","B","C","D","E","F","G","H","I","J","K","L","M","N","O","P","Q","R","S","T","U","V","W","X","Y","Z">>

LowerLetters == <<"a","b","c","d","e","f","g","h","i","j","k","l","m","n","o","p","q","r","s","t","u","v","w","x","y","z">>

\* unicode.ToLower on one ASCII character
ToLowerChar(c) ==
    IF \E k \in DOMAIN UpperLetters : UpperLetters[k] = c
    THEN LowerLetters[CHOOSE k \in DOMAIN UpperLetters : UpperLetters[k] = c]
    ELSE c

\* strings.ToLower(s)
ToLower(s) == [i \in 1..Len(s) |-> ToLowerChar(s[i])]

\* encoding/hex: const hextable = "0123456789abcdef"
hextable == <<"0","1","2","3","4","5","6","7","8","9","a","b","c","d","e","f">>

\* hex.EncodeToString(src): dst[2i] = hextable[b>>4], dst[2i+1] = hextable[b&0x0f]
EncodeToString(src) ==
    [j \in 1..(2 * Len(src)) |->
        IF j % 2 = 1
        THEN hextable[(src[(j + 1) \div 2] \div 16) + 1]
        ELSE hextable[(src[j \div 2] % 16) + 1]]

RECURSIVE FormatDecimal(_)
\* fmt.Sprintf("%d", n) for an unsigned n
FormatDecimal(n) ==
    IF n < 10 THEN <<hextable[n + 1]>>
    ELSE FormatDecimal(n \div 10) \o <<hextable[(n % 10) + 1]>>

(***************************************************************************)
(* Errors: a Go error value is nil or carries a message                    *)
(***************************************************************************)
NilError == [isErr |-> FALSE, msg |-> <<>>]

\* fmt.Errorf(msg) / errors.New(msg)
Errorf(msg) == [isErr |-> TRUE, msg |-> msg]

\* fmt.Errorf(prefix + "%w", err): the message of err follows the prefix
Wrapf(prefix, err) == [isErr |-> TRUE, msg |-> prefix \o err.msg]

(***************************************************************************)
(* internal/ref                                                            *)
(***************************************************************************)
Sha256Prefix == <<"s","h","a","2","5","6",":">>

AtSha256 == <<"@","s","h","a","2","5","6",":">>

ErrEmptyRegistry == Errorf(<<"e","m","p","t","y"," ","r","e","g","i","s","t","r","y">>)

ErrInvalidDigestFormat == Errorf(<<"i","n","v","a","l","i","d"," ","d","i","g","e","s","t"," ","f","o","r","m","a","t">>)

\* The number of bytes of a digest: [32]byte
DigestLen == 32

\* Faulty variant of Digest32ToSha256String: the two hex digits of a byte are swapped
Digest32ToSha256String_Swapped(d) ==
    Sha256Prefix \o
    [j \in 1..(2 * Len(d)) |->
        IF j % 2 = 1
        THEN hextable[(d[(j + 1) \div 2] % 16) + 1]
        ELSE hextable[(d[j \div 2] \div 16) + 1]]

Digest32ToSha256String(d) ==
    Sha256Prefix \o ToLower(EncodeToString(d))

\* The result of BuildReference: the pair (string, error)
RefResult(s, e) == [ref |-> s, err |-> e]

\* Faulty variant of BuildReference: the digest is validated before the passthrough check
BuildReference_ValidateFirst(registry, digest) ==
    IF registry = <<>> THEN RefResult(<<>>, ErrEmptyRegistry)
    ELSE IF ~HasPrefix(digest, Sha256Prefix)
    THEN RefResult(<<>>, ErrInvalidDigestFormat)
    ELSE IF Contains(registry, AtSha256) THEN RefResult(registry, NilError)
    ELSE RefResult(registry \o <<"@">> \o digest, NilError)

\* Faulty variant of BuildReference: the digest is never validated
BuildReference_NoDigestCheck(registry, digest) ==
    IF registry = <<>> THEN RefResult(<<>>, ErrEmptyRegistry)
    ELSE IF Contains(registry, AtSha256) THEN RefResult(registry, NilError)
    ELSE RefResult(registry \o <<"@">> \o digest, NilError)

\* Faulty variant of BuildReference: the empty-registry check is missing
BuildReference_NoEmptyCheck(registry, digest) ==
    IF Contains(registry, AtSha256) THEN RefResult(registry, NilError)
    ELSE IF ~HasPrefix(digest, Sha256Prefix)
    THEN RefResult(<<>>, ErrInvalidDigestFormat)
    ELSE RefResult(registry \o <<"@">> \o digest, NilError)

\* Faulty variant of BuildReference: registry and digest are joined by ":"
BuildReference_ColonJoin(registry, digest) ==
    IF registry = <<>> THEN RefResult(<<>>, ErrEmptyRegistry)
    ELSE IF Contains(registry, AtSha256) THEN RefResult(registry, NilError)
    ELSE IF ~HasPrefix(digest, Sha256Prefix)
    THEN RefResult(<<>>, ErrInvalidDigestFormat)
    ELSE RefResult(registry \o <<":">> \o digest, NilError)

BuildReference(registry, digest) ==
    IF registry = <<>> THEN RefResult(<<>>, ErrEmptyRegistry)
    ELSE IF Contains(registry, AtSha256) THEN RefResult(registry, NilError)
    ELSE IF ~HasPrefix(digest, Sha256Prefix)
    THEN RefResult(<<>>, ErrInvalidDigestFormat)
    ELSE RefResult(registry \o <<"@">> \o digest, NilError)

(***************************************************************************)
(* Inputs of the reference resolver                                        *)
(***************************************************************************)
RECURSIVE Repeat(_, _)
\* strings.Repeat(s, count)
Repeat(s, count) == IF count = 0 THEN <<>> ELSE s \o Repeat(s, count - 1)

\* d[i] = b for every i
FillDigest(b) == [i \in 1..DigestLen |-> b]

\* d[0] = b, every other byte zero
FirstByteDigest(b) == [i \in 1..DigestLen |-> IF i = 1 THEN b ELSE 0]

\* d[31] = b, every other byte zero
LastByteDigest(b) == [i \in 1..DigestLen |-> IF i = DigestLen THEN b ELSE 0]

\* d[i] = byte(i)
IotaDigest == [i \in 1..DigestLen |-> i - 1]

\* the 32-byte digests the resolver is applied to
Digest32Samples ==
    {FillDigest(b) : b \in {0, 10, 17, 160, 170, 171, 186, 255}}
    \cup {FirstByteDigest(b) : b \in {1, 16, 17, 34}}
    \cup {LastByteDigest(b) : b \in {1, 16}}
    \cup {IotaDigest}

\* registries given to BuildReference
RefRegistries ==
    { <<>>,
      <<"a","l","p","i","n","e">>,
      <<"g","h","c","r",".","i","o","/","o","r","g","/","i","m","a","g","e">>,
      <<"l","o","c","a","l","h","o","s","t",":","5","0","0","0","/","m","y","i","m","a","g","e">>,
      <<"g","h","c","r",".","i","o","/","o","r","g","/","i","m","a","g","e","@","s","h","a","2","5","6",":">> \o Repeat(<<"2", "2">>, 32),
      <<"@","s","h","a","2","5","6",":">>,
      <<"i","m","a","g","e","@","s","h","a","2","5","6">>,
      <<"i","m","a","g","e","@","S","H","A","2","5","6",":","a","b">> }

\* digest strings given to BuildReference, well formed and malformed
RefDigestStrings ==
    { <<>>,
      <<"i","g","n","o","r","e","d">>,
      <<"t","h","i","s","-","s","h","o","u","l","d","-","b","e","-","i","g","n","o","r","e","d">>,
      Repeat(<<"1", "1">>, 32),
      <<"m","d","5",":">> \o Repeat(<<"1", "1">>, 16),
      <<"s","h","a","2","5","6">>,
      <<"S","H","A","2","5","6",":">> \o Repeat(<<"1", "1">>, 32),
      <<"s","h","a","2","5","6",":","a","b","c","d","1","2","3","4">>,
      <<"s","h","a","2","5","6",":">> \o Repeat(<<"1", "1">>, 32) }

(***************************************************************************)
(* internal/eth: the release types and the ledger client interface         *)
(***************************************************************************)
\* type Artifact struct { Registry string; Digest32 [32]byte }
Artifact(registry, digest32) == [Registry |-> registry, Digest32 |-> digest32]

\* type Release struct { Artifacts []Artifact; UpgradeByTime uint32 }
Release(artifacts, upgradeByTime) ==
    [Artifacts |-> artifacts, UpgradeByTime |-> upgradeByTime]

\* eth.Release{}
ZeroRelease == Release(<<>>, 0)

\* common.Address.Hex(): "0x" and the 40 hex digits of the address.  The
\* EIP-55 checksum only changes the case of the letters a-f, so for the
\* addresses used here, whose hex digits are all decimal, this is the result.
AddressHex(a) == <<"0", "x">> \o EncodeToString(a)

(***************************************************************************)
(* internal/controller                                                     *)
(***************************************************************************)
\* RunConfig.ReleaseID *uint64: nil, or a pointer to a value
NilReleaseID == [isNil |-> TRUE, val |-> 0]

ReleaseIDPtr(v) == [isNil |-> FALSE, val |-> v]

MsgNoReleasesAvailable == <<"n","o"," ","r","e","l","e","a","s","e","s"," ","a","v","a","i","l","a","b","l","e"," ","f","o","r"," ","t","h","i","s"," ","o","p","e","r","a","t","o","r"," ","s","e","t","\n","\n","T","o"," ","p","u","s","h"," ","a"," ","r","e","l","e","a","s","e",","," ","r","u","n",":","\n"," "," ","f","l","i","c","k","r"," ","p","u","s","h"," ","-","-","i","m","a","g","e"," ","<","y","o","u","r","-","i","m","a","g","e",">","\n","\n","C","u","r","r","e","n","t"," ","c","o","n","f","i","g","u","r","a","t","i","o","n",":","\n"," "," ","A","V","S",":"," ">>

MsgOperatorSet == <<"\n"," "," ","O","p","e","r","a","t","o","r"," ","S","e","t",":"," ">>

MsgNoReleasesFound == <<"n","o"," ","r","e","l","e","a","s","e","s"," ","f","o","u","n","d"," ","(","t","h","e"," ","o","p","e","r","a","t","o","r"," ","s","e","t"," ","m","a","y"," ","n","o","t"," ","h","a","v","e"," ","a","n","y"," ","r","e","l","e","a","s","e","s"," ","y","e","t",")","\n","\n","T","o"," ","p","u","s","h"," ","a"," ","r","e","l","e","a","s","e",","," ","r","u","n",":","\n"," "," ","f","l","i","c","k","r"," ","p","u","s","h"," ","-","-","i","m","a","g","e"," ","<","y","o","u","r","-","i","m","a","g","e",">">>

MsgArithmeticUnderflow == <<"a","r","i","t","h","m","e","t","i","c"," ","u","n","d","e","r","f","l","o","w">>

MsgNoReleases == <<"N","o","R","e","l","e","a","s","e","s">>

MsgArrayOutOfBounds == <<"a","r","r","a","y"," ","o","u","t","-","o","f","-","b","o","u","n","d","s">>

\* Faulty variant of LatestReleaseError: the NoReleases marker is not recognised
LatestReleaseError_UnderflowOnly(c, err) ==
    IF Contains(err.msg, MsgArithmeticUnderflow)
    THEN Errorf(MsgNoReleasesAvailable \o AddressHex(c.AVS)
                \o MsgOperatorSet \o FormatDecimal(c.OperatorSetID))
    ELSE IF Contains(err.msg, MsgArrayOutOfBounds)
    THEN Errorf(MsgNoReleasesFound)
    ELSE Wrapf(<<"f","a","i","l","e","d"," ","t","o"," ","g","e","t"," ","l","a","t","e","s","t"," ","r","e","l","e","a","s","e",":"," ">>, err)

\* Faulty variant of LatestReleaseError: the cause of an unrecognised failure is dropped
LatestReleaseError_CauseDropped(c, err) ==
    IF Contains(err.msg, MsgArithmeticUnderflow) \/ Contains(err.msg, MsgNoReleases)
    THEN Errorf(MsgNoReleasesAvailable \o AddressHex(c.AVS)
                \o MsgOperatorSet \o FormatDecimal(c.OperatorSetID))
    ELSE IF Contains(err.msg, MsgArrayOutOfBounds)
    THEN Errorf(MsgNoReleasesFound)
    ELSE Errorf(<<"f","a","i","l","e","d"," ","t","o"," ","g","e","t"," ","l","a","t","e","s","t"," ","r","e","l","e","a","s","e">>)

\* Execute, the failure of GetLatestRelease
LatestReleaseError(c, err) ==
    IF Contains(err.msg, MsgArithmeticUnderflow) \/ Contains(err.msg, MsgNoReleases)
    THEN Errorf(MsgNoReleasesAvailable \o AddressHex(c.AVS)
                \o MsgOperatorSet \o FormatDecimal(c.OperatorSetID))
    ELSE IF Contains(err.msg, MsgArrayOutOfBounds)
    THEN Errorf(MsgNoReleasesFound)
    ELSE Wrapf(<<"f","a","i","l","e","d"," ","t","o"," ","g","e","t"," ","l","a","t","e","s","t"," ","r","e","l","e","a","s","e",":"," ">>, err)

\* Faulty variant of SpecificReleaseError: an out-of-range id is reported with
\* the general guidance of the latest request
SpecificReleaseError_LatestGuidance(c, err) ==
    IF Contains(err.msg, MsgArrayOutOfBounds)
    THEN Errorf(MsgNoReleasesFound)
    ELSE Wrapf(<<"f","a","i","l","e","d"," ","t","o"," ","g","e","t"," ","r","e","l","e","a","s","e"," ">> \o FormatDecimal(c.ReleaseID.val)
               \o <<":"," ">>, err)

\* Execute, the failure of GetRelease
SpecificReleaseError(c, err) ==
    IF Contains(err.msg, MsgArrayOutOfBounds)
    THEN Errorf(<<"r","e","l","e","a","s","e"," ","I","D"," ">> \o FormatDecimal(c.ReleaseID.val)
                \o <<" ","d","o","e","s"," ","n","o","t"," ","e","x","i","s","t">>)
    ELSE Wrapf(<<"f","a","i","l","e","d"," ","t","o"," ","g","e","t"," ","r","e","l","e","a","s","e"," ">> \o FormatDecimal(c.ReleaseID.val)
               \o <<":"," ">>, err)

ErrNoArtifactsInRelease == Errorf(<<"n","o"," ","a","r","t","i","f","a","c","t","s"," ","i","n"," ","r","e","l","e","a","s","e">>)

\* Faulty variant of SelectArtifact: the last artifact is taken
SelectArtifact_Last(rel) == rel.Artifacts[Len(rel.Artifacts)]

\* art := rel.Artifacts[0]
SelectArtifact(rel) == rel.Artifacts[1]

\* the environment Execute injects
InjectedEnv(c, relID, rel) ==
    [k \in {"AVS_ADDRESS", "OPERATOR_SET_ID", "RELEASE_ID", "UPGRADE_BY_TIME"} |->
        CASE k = "AVS_ADDRESS" -> AddressHex(c.AVS)
          [] k = "OPERATOR_SET_ID" -> FormatDecimal(c.OperatorSetID)
          [] k = "RELEASE_ID" -> FormatDecimal(relID)
          [] k = "UPGRADE_BY_TIME" -> FormatDecimal(rel.UpgradeByTime)]

\* Faulty variant of MergeEnv: an injected key is not overwritten
MergeEnv_InjectedWins(env, userEnv) ==
    [k \in (DOMAIN env) \cup (DOMAIN userEnv) |->
        IF k \in DOMAIN env THEN env[k] ELSE userEnv[k]]

\* for k, v := range cfg.Env { env[k] = v }
MergeEnv(env, userEnv) ==
    [k \in (DOMAIN env) \cup (DOMAIN userEnv) |->
        IF k \in DOMAIN userEnv THEN userEnv[k] ELSE env[k]]

\* docker.RunOptions
RunOptions(c, env) ==
    [Name |-> c.Name, Detached |-> c.Detached, Env |-> env, Cmd |-> c.Cmd]

(***************************************************************************)
(* Inputs of Controller.Execute and answers of its collaborators           *)
(***************************************************************************)
\* the largest number of artifacts in a release of the ledger
MaxArtifacts == 2

\* 0x1234567890123456789012345678901234567890
AddressA == [i \in 1..20 |-> <<18, 52, 86, 120, 144>>[((i - 1) % 5) + 1]]

\* 0x0000000000000000000000000000000000000001
AddressB == [i \in 1..20 |-> IF i = 20 THEN 1 ELSE 0]

NoEnv == [k \in {} |-> <<>>]

UserEnvs ==
    { NoEnv,
      [k \in {"CUSTOM_VAR"} |-> <<"c","u","s","t","o","m","_","v","a","l","u","e">>],
      [k \in {"RELEASE_ID", "AVS_ADDRESS", "TEST_ENV"} |->
          CASE k = "RELEASE_ID" -> <<"p","i","n","n","e","d">>
            [] k = "AVS_ADDRESS" -> <<"0","x","d","e","a","d">>
            [] k = "TEST_ENV" -> <<"i","n","t","e","g","r","a","t","i","o","n">>] }

RunConfigs ==
    { [AVS |-> a, OperatorSetID |-> o, ReleaseID |-> r, Name |-> <<"t","e","s","t","-","c","o","n","t","a","i","n","e","r">>,
       Detached |-> TRUE, Env |-> e, Cmd |-> <<>>] :
        a \in {AddressA, AddressB}, o \in {1, 20},
        r \in {NilReleaseID, ReleaseIDPtr(0), ReleaseIDPtr(42)},
        e \in UserEnvs }

ArtifactSamples ==
    { Artifact(<<"f","i","r","s","t",".","i","o","/","i","m","a","g","e">>, FirstByteDigest(17)),
      Artifact(<<"s","e","c","o","n","d",".","i","o","/","i","m","a","g","e">>, FirstByteDigest(34)),
      Artifact(<<"g","h","c","r",".","i","o","/","o","r","g","/","i","m","a","g","e","@","s","h","a","2","5","6",":">> \o Repeat(<<"c", "c">>, 32), FillDigest(0)),
      Artifact(<<>>, FillDigest(170)),
      Artifact(<<"g","h","c","r",".","i","o","/","o","r","g","/","i","m","a","g","e">>, FillDigest(170)) }

RECURSIVE SeqsUpTo(_, _)
\* the sequences over S of length at most n
SeqsUpTo(S, n) ==
    IF n = 0 THEN {<<>>}
    ELSE LET shorter == SeqsUpTo(S, n - 1)
         IN  shorter \cup {Append(s, x) : s \in {t \in shorter : Len(t) = n - 1}, x \in S}

\* the releases the ledger may hold
LedgerReleases ==
    {Release(as, u) : as \in SeqsUpTo(ArtifactSamples, MaxArtifacts), u \in {0, 123456}}

\* the ids the ledger may report for the latest release
LatestIDs == {0, 7}

\* the failures a ledger read may report
LedgerErrors ==
    { Errorf(<<"e","x","e","c","u","t","i","o","n"," ","r","e","v","e","r","t","e","d",":"," ","p","a","n","i","c",":"," ","a","r","i","t","h","m","e","t","i","c"," ","u","n","d","e","r","f","l","o","w"," ","o","r"," ","o","v","e","r","f","l","o","w"," ","(","0","x","1","1",")">>),
      Errorf(<<"N","o","R","e","l","e","a","s","e","s">>),
      Errorf(<<"e","x","e","c","u","t","i","o","n"," ","r","e","v","e","r","t","e","d",":"," ","p","a","n","i","c",":"," ","a","r","r","a","y"," ","o","u","t","-","o","f","-","b","o","u","n","d","s"," ","a","c","c","e","s","s"," ","(","0","x","3","2",")">>),
      Errorf(<<"n","e","t","w","o","r","k"," ","e","r","r","o","r">>) }

\* what Pull may return
PullResults == {NilError, Errorf(<<"d","o","c","k","e","r"," ","p","u","l","l"," ","f","a","i","l","e","d",":"," ","e","x","i","t"," ","s","t","a","t","u","s"," ","1","\n">>)}

\* what Run may return
RunResults == {NilError, Errorf(<<"d","o","c","k","e","r"," ","r","u","n"," ","f","a","i","l","e","d",":"," ","e","x","i","t"," ","s","t","a","t","u","s"," ","1","2","5","\n">>)}

(***************************************************************************)
(* internal/config: the signer fields of a context                         *)
(***************************************************************************)
\* type Context struct: the fields FromContext and `context set` use
Context(avs, opSet, rm, rpc, name, env, key, ksPath, ksPassword) ==
    [AVSAddress |-> avs, OperatorSetID |-> opSet, ReleaseManager |-> rm,
     RPCURL |-> rpc, Name |-> name, EnvironmentVars |-> env,
     ECDSAPrivateKey |-> key, KeystorePath |-> ksPath,
     KeystorePassword |-> ksPassword]

(***************************************************************************)
(* internal/signer                                                         *)
(***************************************************************************)
\* a value of the interface type Signer: the nil interface, or a dynamic
\* type with a pointer that is nil (present = FALSE) or points to a signer
NilSigner ==
    [typ |-> "nil", present |-> FALSE, privateKey |-> <<>>, address |-> <<>>]

\* a nil pointer of type *ECDSASigner or *KeystoreSigner converted to Signer
NilPointerSigner(typ) ==
    [typ |-> typ, present |-> FALSE, privateKey |-> <<>>, address |-> <<>>]

\* the result (Signer, error)
SignerResult(s, e) == [signer |-> s, err |-> e]

\* encoding/hex fromHexChar: the value of a hex digit of either case, or -1
FromHexChar(c) ==
    IF \E k \in DOMAIN hextable : hextable[k] = c
    THEN (CHOOSE k \in DOMAIN hextable : hextable[k] = c) - 1
    ELSE IF \E k \in 1..6 : UpperLetters[k] = c
    THEN 9 + (CHOOSE k \in 1..6 : UpperLetters[k] = c)
    ELSE -1

\* hex.DecodeString(s): the bytes, or InvalidByteError of the first invalid
\* character, or ErrLength for an odd length
DecodeString(s) ==
    IF \E i \in 1..Len(s) : FromHexChar(s[i]) = -1
    THEN [bytes |-> <<>>, invalidByte |-> TRUE, oddLength |-> FALSE,
          char |-> s[CHOOSE i \in 1..Len(s) :
                        /\ FromHexChar(s[i]) = -1
                        /\ \A j \in 1..(i - 1) : FromHexChar(s[j]) # -1]]
    ELSE IF Len(s) % 2 = 1
    THEN [bytes |-> <<>>, invalidByte |-> FALSE, oddLength |-> TRUE, char |-> ""]
    ELSE [bytes |-> [i \in 1..(Len(s) \div 2) |->
                        16 * FromHexChar(s[2 * i - 1]) + FromHexChar(s[2 * i])],
          invalidByte |-> FALSE, oddLength |-> FALSE, char |-> ""]

\* the order of the secp256k1 group, big endian
Secp256k1N == <<255,255,255,255,255,255,255,255,255,255,255,255,255,255,255,254,186,174,220,230,175,72,160,59,191,210,94,140,208,54,65,65>>

\* big.Int.Cmp(a, b) < 0 for big-endian byte strings of equal length
BytesLess(a, b) ==
    \E i \in 1..Len(a) :
        /\ a[i] < b[i]
        /\ \A j \in 1..(i - 1) : a[j] = b[j]

\* crypto.HexToECDSA(hexkey): the private scalar, or an error
HexToECDSA(hexkey) ==
    LET decoded == DecodeString(hexkey)
    IN  IF decoded.invalidByte
        THEN [key |-> <<>>,
              err |-> Errorf(<<"i","n","v","a","l","i","d"," ","h","e","x"," ","c","h","a","r","a","c","t","e","r"," ","'">> \o <<decoded.char>>
                             \o <<"'"," ","i","n"," ","p","r","i","v","a","t","e"," ","k","e","y">>)]
        ELSE IF decoded.oddLength
        THEN [key |-> <<>>, err |-> Errorf(<<"i","n","v","a","l","i","d"," ","h","e","x"," ","d","a","t","a"," ","f","o","r"," ","p","r","i","v","a","t","e"," ","k","e","y">>)]
        ELSE IF 8 * Len(decoded.bytes) # 256
        THEN [key |-> <<>>, err |-> Errorf(<<"i","n","v","a","l","i","d"," ","l","e","n","g","t","h",","," ","n","e","e","d"," ","2","5","6"," ","b","i","t","s">>)]
        ELSE IF ~BytesLess(decoded.bytes, Secp256k1N)
        THEN [key |-> <<>>, err |-> Errorf(<<"i","n","v","a","l","i","d"," ","p","r","i","v","a","t","e"," ","k","e","y",","," ",">","=","N">>)]
        ELSE IF \A i \in 1..Len(decoded.bytes) : decoded.bytes[i] = 0
        THEN [key |-> <<>>, err |-> Errorf(<<"i","n","v","a","l","i","d"," ","p","r","i","v","a","t","e"," ","k","e","y",","," ","z","e","r","o"," ","o","r"," ","n","e","g","a","t","i","v","e">>)]
        ELSE [key |-> decoded.bytes, err |-> NilError]

\* the private keys whose address is known
KeyAnvil0 == <<172,9,116,190,195,154,23,227,107,164,166,180,210,56,255,148,75,172,180,120,203,237,94,252,174,120,77,123,244,242,255,128>>

KeyAnvil1 == <<89,198,153,94,153,143,151,165,160,4,73,102,240,148,83,137,220,158,134,218,232,140,122,132,18,244,96,59,107,120,105,13>>

KeyOne == <<0,0,0,0,0,0,0,0,0,0,0,0,0,0,0,0,0,0,0,0,0,0,0,0,0,0,0,0,0,0,0,1>>

\* crypto.PubkeyToAddress(privateKey.PublicKey): the last 20 bytes of the
\* Keccak-256 hash of the public key, tabulated for the keys used here
PubkeyToAddress(privateKey) ==
    CASE privateKey = KeyAnvil0 -> <<243,159,214,229,26,173,136,246,244,206,106,184,130,114,121,207,255,185,34,102>>
      [] privateKey = KeyAnvil1 -> <<112,153,121,112,197,24,18,220,58,1,12,125,1,181,14,13,23,220,121,200>>
      [] privateKey = KeyOne -> <<126,95,69,82,9,26,105,18,93,93,252,183,184,194,101,144,41,57,91,223>>

\* NewECDSASigner(privateKey)
NewECDSASigner(privateKey) ==
    [typ |-> "*ECDSASigner", present |-> TRUE, privateKey |-> privateKey,
     address |-> PubkeyToAddress(privateKey)]

\* NewECDSASignerFromHex(hexKey)
\* Faulty variant of NewECDSASignerFromHex: the "0x" prefix is not removed
NewECDSASignerFromHex_PrefixKept(hexKey) ==
    LET parsed == HexToECDSA(hexKey)
    IN  IF parsed.err.isErr
        THEN SignerResult(NilPointerSigner("*ECDSASigner"),
                          Wrapf(<<"i","n","v","a","l","i","d"," ","p","r","i","v","a","t","e"," ","k","e","y",":"," ">>, parsed.err))
        ELSE SignerResult(NewECDSASigner(parsed.key), NilError)

NewECDSASignerFromHex(hexKey) ==
    LET stripped == IF Len(hexKey) >= 2 /\ SubSeq(hexKey, 1, 2) = <<"0", "x">>
                    THEN SubSeq(hexKey, 3, Len(hexKey))
                    ELSE hexKey
        parsed == HexToECDSA(stripped)
    IN  IF parsed.err.isErr
        THEN SignerResult(NilPointerSigner("*ECDSASigner"),
                          Wrapf(<<"i","n","v","a","l","i","d"," ","p","r","i","v","a","t","e"," ","k","e","y",":"," ">>, parsed.err))
        ELSE SignerResult(NewECDSASigner(parsed.key), NilError)

\* the keystore files on disk: path, password, the key inside, and whether
\* the file content is a valid keystore
KeystoreFiles ==
    { [path |-> <<"/","k","e","y","s","/","o","p","e","r","a","t","o","r",".","j","s","o","n">>, password |-> <<"s","e","c","r","e","t">>,
       privateKey |-> KeyAnvil1, valid |-> TRUE],
      [path |-> <<"/","k","e","y","s","/","c","o","r","r","u","p","t",".","j","s","o","n">>, password |-> <<>>,
       privateKey |-> <<>>, valid |-> FALSE] }

\* ioutil.ReadFile(keystorePath) succeeds
FileExists(path) == \E f \in KeystoreFiles : f.path = path

\* NewKeystoreSigner(keystorePath, password)
NewKeystoreSigner(keystorePath, password) ==
    IF ~FileExists(keystorePath)
    THEN SignerResult(NilPointerSigner("*KeystoreSigner"),
            Errorf(<<"f","a","i","l","e","d"," ","t","o"," ","r","e","a","d"," ","k","e","y","s","t","o","r","e"," ","f","i","l","e",":"," ","o","p","e","n"," ">> \o keystorePath
                   \o <<":"," ","n","o"," ","s","u","c","h"," ","f","i","l","e"," ","o","r"," ","d","i","r","e","c","t","o","r","y">>))
    ELSE LET f == CHOOSE f \in KeystoreFiles : f.path = keystorePath
         IN  IF ~f.valid
             THEN SignerResult(NilPointerSigner("*KeystoreSigner"),
                     Errorf(<<"f","a","i","l","e","d"," ","t","o"," ","d","e","c","r","y","p","t"," ","k","e","y","s","t","o","r","e",":"," ","u","n","e","x","p","e","c","t","e","d"," ","e","n","d"," ","o","f"," ","J","S","O","N"," ","i","n","p","u","t">>))
             ELSE IF f.password # password
             THEN SignerResult(NilPointerSigner("*KeystoreSigner"),
                     Errorf(<<"f","a","i","l","e","d"," ","t","o"," ","d","e","c","r","y","p","t"," ","k","e","y","s","t","o","r","e",":"," ","c","o","u","l","d"," ","n","o","t"," ","d","e","c","r","y","p","t"," ","k","e","y"," ","w","i","t","h"," ","g","i","v","e","n"," ","p","a","s","s","w","o","r","d">>))
             ELSE SignerResult(
                     [typ |-> "*KeystoreSigner", present |-> TRUE,
                      privateKey |-> f.privateKey,
                      address |-> PubkeyToAddress(f.privateKey)],
                     NilError)

ErrMissingKeystorePassword == Errorf(<<"k","e","y","s","t","o","r","e"," ","p","a","s","s","w","o","r","d"," ","i","s"," ","r","e","q","u","i","r","e","d">>)

ErrNoSignerConfigured == Errorf(<<"n","o"," ","s","i","g","n","e","r"," ","c","o","n","f","i","g","u","r","e","d"," ","i","n"," ","c","o","n","t","e","x","t">>)

\* the result of FromContext and the keystore files it has read
FactoryResult(r, reads) == [signer |-> r.signer, err |-> r.err, reads |-> reads]

\* Faulty variant of FromContext: the keystore takes precedence over the raw key
FromContext_KeystoreFirst(ctx) ==
    IF ctx.KeystorePath # <<>>
    THEN IF ctx.KeystorePassword = <<>>
         THEN FactoryResult(SignerResult(NilSigner, ErrMissingKeystorePassword), <<>>)
         ELSE FactoryResult(NewKeystoreSigner(ctx.KeystorePath, ctx.KeystorePassword),
                            <<ctx.KeystorePath>>)
    ELSE IF ctx.ECDSAPrivateKey # <<>>
    THEN FactoryResult(NewECDSASignerFromHex(ctx.ECDSAPrivateKey), <<>>)
    ELSE FactoryResult(SignerResult(NilSigner, ErrNoSignerConfigured), <<>>)

\* FromContext(ctx)
FromContext(ctx) ==
    IF ctx.ECDSAPrivateKey # <<>>
    THEN FactoryResult(NewECDSASignerFromHex(ctx.ECDSAPrivateKey), <<>>)
    ELSE IF ctx.KeystorePath # <<>>
    THEN IF ctx.KeystorePassword = <<>>
         THEN FactoryResult(SignerResult(NilSigner, ErrMissingKeystorePassword), <<>>)
         ELSE FactoryResult(NewKeystoreSigner(ctx.KeystorePath, ctx.KeystorePassword),
                            <<ctx.KeystorePath>>)
    ELSE FactoryResult(SignerResult(NilSigner, ErrNoSignerConfigured), <<>>)

\* the hex keys a context may hold
HexKeySamples ==
    { <<>>,
      <<"0","x","a","c","0","9","7","4","b","e","c","3","9","a","1","7","e","3","6","b","a","4","a","6","b","4","d","2","3","8","f","f","9","4","4","b","a","c","b","4","7","8","c","b","e","d","5","e","f","c","a","e","7","8","4","d","7","b","f","4","f","2","f","f","8","0">>,
      <<"a","c","0","9","7","4","b","e","c","3","9","a","1","7","e","3","6","b","a","4","a","6","b","4","d","2","3","8","f","f","9","4","4","b","a","c","b","4","7","8","c","b","e","d","5","e","f","c","a","e","7","8","4","d","7","b","f","4","f","2","f","f","8","0">>,
      <<"0","x","A","C","0","9","7","4","B","E","C","3","9","A","1","7","E","3","6","B","A","4","A","6","B","4","D","2","3","8","F","F","9","4","4","B","A","C","B","4","7","8","C","B","E","D","5","E","F","C","A","E","7","8","4","D","7","B","F","4","F","2","F","F","8","0">>,
      <<"0","x","0","0","0","0","0","0","0","0","0","0","0","0","0","0","0","0","0","0","0","0","0","0","0","0","0","0","0","0","0","0","0","0","0","0","0","0","0","0","0","0","0","0","0","0","0","0","0","0","0","0","0","0","0","0","0","0","0","0","0","0","0","0","0","1">>,
      <<"i","n","v","a","l","i","d">>,
      <<"0","x">>,
      <<"0","x","a","b","c">>,
      <<"0","x","0","0","0","0","0","0","0","0","0","0","0","0","0","0","0","0","0","0","0","0","0","0","0","0","0","0","0","0","0","0","0","0","0","0","0","0","0","0","0","0","0","0","0","0","0","0","0","0","0","0","0","0","0","0","0","0","0","0","0","0","0","0","0","0">>,
      <<"f","f","f","f","f","f","f","f","f","f","f","f","f","f","f","f","f","f","f","f","f","f","f","f","f","f","f","f","f","f","f","f","f","f","f","f","f","f","f","f","f","f","f","f","f","f","f","f","f","f","f","f","f","f","f","f","f","f","f","f","f","f","f","f">> }

\* the keys, written without the "0x" prefix, NewECDSASignerFromHex is applied to
BareHexKeySamples ==
    { <<>>,
      <<"a","c","0","9","7","4","b","e","c","3","9","a","1","7","e","3","6","b","a","4","a","6","b","4","d","2","3","8","f","f","9","4","4","b","a","c","b","4","7","8","c","b","e","d","5","e","f","c","a","e","7","8","4","d","7","b","f","4","f","2","f","f","8","0">>,
      <<"A","C","0","9","7","4","B","E","C","3","9","A","1","7","E","3","6","B","A","4","A","6","B","4","D","2","3","8","F","F","9","4","4","B","A","C","B","4","7","8","C","B","E","D","5","E","F","C","A","E","7","8","4","D","7","B","F","4","F","2","F","F","8","0">>,
      <<"5","9","c","6","9","9","5","e","9","9","8","f","9","7","a","5","a","0","0","4","4","9","6","6","f","0","9","4","5","3","8","9","d","c","9","e","8","6","d","a","e","8","8","c","7","a","8","4","1","2","f","4","6","0","3","b","6","b","7","8","6","9","0","d">>,
      <<"0","0","0","0","0","0","0","0","0","0","0","0","0","0","0","0","0","0","0","0","0","0","0","0","0","0","0","0","0","0","0","0","0","0","0","0","0","0","0","0","0","0","0","0","0","0","0","0","0","0","0","0","0","0","0","0","0","0","0","0","0","0","0","1">>,
      <<"i","n","v","a","l","i","d">>,
      <<"a","b","c">>,
      <<"a","c","0","9","7","4","b","e","c","3","9","a","1","7","e","3","6","b","a","4","a","6","b","4","d","2","3","8","f","f","9","4","4","b","a","c","b","4","7","8","c","b","e","d","5","e","f","c","a","e","7","8","4","d","7","b","f","4","f","2","f","f","8">>,
      <<"z","c","0","9","7","4","b","e","c","3","9","a","1","7","e","3","6","b","a","4","a","6","b","4","d","2","3","8","f","f","9","4","4","b","a","c","b","4","7","8","c","b","e","d","5","e","f","c","a","e","7","8","4","d","7","b","f","4","f","2","f","f","8","0">>,
      <<"a","c","0","9","7","4","b","e","c","3","9","a","1","7","e","3","6","b","a","4","a","6","b","4","d","2","3","8","f","f","9","4","4","b","a","c","b","4","7","8","c","b","e","d","5","e","f","c","a","e","7","8","4","d","7","b","f","4","f","2","f","f","8","0","f","f">>,
      <<"0","0","0","0","0","0","0","0","0","0","0","0","0","0","0","0","0","0","0","0","0","0","0","0","0","0","0","0","0","0","0","0","0","0","0","0","0","0","0","0","0","0","0","0","0","0","0","0","0","0","0","0","0","0","0","0","0","0","0","0","0","0","0","0">>,
      <<"f","f","f","f","f","f","f","f","f","f","f","f","f","f","f","f","f","f","f","f","f","f","f","f","f","f","f","f","f","f","f","f","f","f","f","f","f","f","f","f","f","f","f","f","f","f","f","f","f","f","f","f","f","f","f","f","f","f","f","f","f","f","f","f">> }

KeystorePathSamples ==
    {<<>>, <<"/","p","a","t","h","/","t","o","/","k","e","y","s","t","o","r","e">>, <<"/","k","e","y","s","/","o","p","e","r","a","t","o","r",".","j","s","o","n">>, <<"/","k","e","y","s","/","c","o","r","r","u","p","t",".","j","s","o","n">>}

KeystorePasswordSamples == {<<>>, <<"p","a","s","s","w","o","r","d">>, <<"s","e","c","r","e","t">>}

\* the contexts FromContext is applied to
SignerContexts ==
    { Context(<<>>, 0, <<>>, <<>>, <<>>, NoEnv, k, p, w) :
        k \in HexKeySamples, p \in KeystorePathSamples, w \in KeystorePasswordSamples }

(***************************************************************************)
(* internal/config and the command `context set`                           *)
(***************************************************************************)
\* &Context{}
EmptyContext == Context(<<>>, 0, <<>>, <<>>, <<>>, NoEnv, <<>>, <<>>, <<>>)

\* type Config struct { CurrentContext string; Contexts map[string]*Context }
Config(current, contexts) == [CurrentContext |-> current, Contexts |-> contexts]

\* the config file: absent, holding a configuration, or not parseable
DiskFile(status, c) == [status |-> status, cfg |-> c]

\* LoadConfig(): an absent file gives the empty configuration
LoadConfig(file) ==
    CASE file.status = "absent" ->
            [cfg |-> Config(<<>>, [n \in {} |-> EmptyContext]), err |-> NilError]
      [] file.status = "corrupt" ->
            [cfg |-> file.cfg,
             err |-> Errorf(<<"f","a","i","l","e","d"," ","t","o"," ","p","a","r","s","e"," ","c","o","n","f","i","g"," ","f","i","l","e",":"," ","u","n","e","x","p","e","c","t","e","d"," ","e","n","d"," ","o","f"," ","J","S","O","N"," ","i","n","p","u","t">>)]
      [] file.status = "valid" ->
            [cfg |-> file.cfg, err |-> NilError]

\* strings.SplitN(s, "=", 2)
SplitN2(s) ==
    IF \E i \in 1..Len(s) : s[i] = "="
    THEN LET i == CHOOSE i \in 1..Len(s) :
                     s[i] = "=" /\ \A j \in 1..(i - 1) : s[j] # "="
         IN  <<SubSeq(s, 1, i - 1), SubSeq(s, i + 1, Len(s))>>
    ELSE <<s>>

RECURSIVE ApplyEnvFlags(_, _, _)
\* for _, env := range envFlags { ... ctx.EnvironmentVars[key] = value }
\* from entry i on: the map reached and the error that stopped the loop
ApplyEnvFlags(envVars, envFlags, i) ==
    IF i > Len(envFlags) THEN [env |-> envVars, err |-> NilError]
    ELSE LET parts == SplitN2(envFlags[i])
         IN  IF Len(parts) # 2
             THEN [env |-> envVars,
                   err |-> Errorf(<<"i","n","v","a","l","i","d"," ","e","n","v"," ","f","o","r","m","a","t",":"," ">> \o envFlags[i]
                                  \o <<" ","(","e","x","p","e","c","t","e","d"," ","K","E","Y","=","V","A","L","U","E",")">>)]
             ELSE ApplyEnvFlags(
                     [k \in (DOMAIN envVars) \cup {parts[1]} |->
                         IF k = parts[1] THEN parts[2] ELSE envVars[k]],
                     envFlags, i + 1)

\* the flags of `context set`
SetFlags(avs, opSetGiven, opSet, rpc, rm, name, env, key, ksPath, ksPassword) ==
    [avsAddress |-> avs, operatorSetIdIsSet |-> opSetGiven, operatorSetId |-> opSet,
     rpcUrl |-> rpc, releaseManager |-> rm, name |-> name, env |-> env,
     ecdsaPrivateKey |-> key, keystorePath |-> ksPath, keystorePassword |-> ksPassword]

\* contextSetAction, the signer flags: the context after --ecdsa-private-key
SetPrivateKey(ctx, f) ==
    IF f.ecdsaPrivateKey # <<>>
    THEN [ctx EXCEPT !.ECDSAPrivateKey = f.ecdsaPrivateKey,
                     !.KeystorePath = <<>>,
                     !.KeystorePassword = <<>>]
    ELSE ctx

\* Faulty variant of SetKeystorePath: the private key is kept
SetKeystorePath_KeyKept(ctx, f) ==
    IF f.keystorePath # <<>>
    THEN [ctx EXCEPT !.KeystorePath = f.keystorePath]
    ELSE ctx

\* contextSetAction, the signer flags: the context after --keystore-path
SetKeystorePath(ctx, f) ==
    IF f.keystorePath # <<>>
    THEN [ctx EXCEPT !.KeystorePath = f.keystorePath,
                     !.ECDSAPrivateKey = <<>>]
    ELSE ctx

\* contextSetAction: the configuration in memory when the function returns,
\* the error returned, and whether SaveConfig was reached
ContextSetAction(file, f) ==
    LET loaded == LoadConfig(file)
        cfg0 == loaded.cfg
        result(c, e, s) == [cfg |-> c, err |-> e, save |-> s]
    IN  IF loaded.err.isErr
        THEN result(cfg0, Wrapf(<<"f","a","i","l","e","d"," ","t","o"," ","l","o","a","d"," ","c","o","n","f","i","g",":"," ">>, loaded.err), FALSE)
        ELSE IF cfg0.CurrentContext = <<>>
        THEN result(cfg0, Errorf(<<"n","o"," ","c","u","r","r","e","n","t"," ","c","o","n","t","e","x","t"," ","s","e","t">>), FALSE)
        ELSE IF cfg0.CurrentContext \notin DOMAIN cfg0.Contexts
        THEN result(cfg0, Errorf(<<"c","u","r","r","e","n","t"," ","c","o","n","t","e","x","t"," ","'">> \o cfg0.CurrentContext
                                 \o <<"'"," ","n","o","t"," ","f","o","u","n","d">>), FALSE)
        ELSE
        LET ctx0 == cfg0.Contexts[cfg0.CurrentContext]
            ctx1 == IF f.avsAddress # <<>>
                    THEN [ctx0 EXCEPT !.AVSAddress = f.avsAddress] ELSE ctx0
            ctx2 == IF f.operatorSetIdIsSet
                    THEN [ctx1 EXCEPT !.OperatorSetID = f.operatorSetId] ELSE ctx1
            ctx3 == IF f.rpcUrl # <<>>
                    THEN [ctx2 EXCEPT !.RPCURL = f.rpcUrl] ELSE ctx2
            ctx4 == IF f.releaseManager # <<>>
                    THEN [ctx3 EXCEPT !.ReleaseManager = f.releaseManager] ELSE ctx3
            ctx5 == IF f.name # <<>>
                    THEN [ctx4 EXCEPT !.Name = f.name] ELSE ctx4
            envs == ApplyEnvFlags(ctx5.EnvironmentVars, f.env, 1)
            ctx6 == [ctx5 EXCEPT !.EnvironmentVars = envs.env]
            ctx7 == SetPrivateKey(ctx6, f)
            ctx8 == SetKeystorePath(ctx7, f)
            ctx9 == [ctx8 EXCEPT !.KeystorePassword = f.keystorePassword]
            updated == \/ f.avsAddress # <<>>
                       \/ f.operatorSetIdIsSet
                       \/ f.rpcUrl # <<>>
                       \/ f.releaseManager # <<>>
                       \/ f.name # <<>>
                       \/ Len(f.env) > 0
                       \/ f.ecdsaPrivateKey # <<>>
                       \/ f.keystorePath # <<>>
                       \/ f.keystorePassword # <<>>
            with(c) == [cfg0 EXCEPT !.Contexts[cfg0.CurrentContext] = c]
        IN  IF envs.err.isErr
            THEN result(with(ctx6), envs.err, FALSE)
            ELSE IF f.keystorePassword # <<>> /\ ctx8.KeystorePath = <<>>
            THEN result(with(ctx8),
                        Errorf(<<"k","e","y","s","t","o","r","e","-","p","a","s","s","w","o","r","d"," ","r","e","q","u","i","r","e","s"," ","k","e","y","s","t","o","r","e","-","p","a","t","h"," ","t","o"," ","b","e"," ","s","e","t">>),
                        FALSE)
            ELSE IF ~updated
            THEN result(with(ctx8), Errorf(<<"n","o"," ","v","a","l","u","e","s"," ","p","r","o","v","i","d","e","d"," ","t","o"," ","u","p","d","a","t","e">>), FALSE)
            ELSE result(with(IF f.keystorePassword # <<>> THEN ctx9 ELSE ctx8),
                        NilError, TRUE)

\* SaveConfig(cfg): the file after the call and the error returned.  A failed
\* write leaves the old file or a truncated one.
SaveConfig(file, cfg, outcome) ==
    CASE outcome = "written" ->
            [file |-> DiskFile("valid", cfg), err |-> NilError]
      [] outcome = "refused" ->
            [file |-> file,
             err |-> Errorf(<<"f","a","i","l","e","d"," ","t","o"," ","w","r","i","t","e"," ","c","o","n","f","i","g"," ","f","i","l","e",":"," ","p","e","r","m","i","s","s","i","o","n"," ","d","e","n","i","e","d">>)]
      [] outcome = "truncated" ->
            [file |-> DiskFile("corrupt", file.cfg),
             err |-> Errorf(<<"f","a","i","l","e","d"," ","t","o"," ","w","r","i","t","e"," ","c","o","n","f","i","g"," ","f","i","l","e",":"," ","n","o"," ","s","p","a","c","e"," ","l","e","f","t"," ","o","n"," ","d","e","v","i","c","e">>)]

SaveOutcomes == {"written", "refused", "truncated"}

\* inputs of `context set`
AvsFlag == <<"0","x","1","2","3","4","5","6","7","8","9","0","1","2","3","4","5","6","7","8","9","0","1","2","3","4","5","6","7","8","9","0","1","2","3","4","5","6","7","8","9","0">>

KeyFlag == <<"0","x","a","c","0","9","7","4","b","e","c","3","9","a","1","7","e","3","6","b","a","4","a","6","b","4","d","2","3","8","f","f","9","4","4","b","a","c","b","4","7","8","c","b","e","d","5","e","f","c","a","e","7","8","4","d","7","b","f","4","f","2","f","f","8","0">>

PathFlag == <<"/","p","a","t","h","/","t","o","/","k","e","y","s","t","o","r","e">>

PasswordFlag == <<"p","a","s","s","w","o","r","d">>

\* the flags other than the signer flags
OtherFlagSamples ==
    { SetFlags(<<>>, FALSE, 0, <<>>, <<>>, <<>>, <<>>, <<>>, <<>>, <<>>),
      SetFlags(AvsFlag, TRUE, 0, <<"h","t","t","p",":","/","/","l","o","c","a","l","h","o","s","t",":","8","5","4","5">>, <<>>, <<"o","p">>, <<>>,
               <<>>, <<>>, <<>>),
      SetFlags(<<>>, FALSE, 0, <<>>, <<>>, <<>>, <<<<"K","E","Y","=","V","A","L","U","E">>, <<"K","=","a","=","b">>>>,
               <<>>, <<>>, <<>>),
      SetFlags(<<>>, FALSE, 0, <<>>, <<>>, <<>>, <<<<"A","=","1">>, <<"N","O","E","Q","U","A","L","S">>>>,
               <<>>, <<>>, <<>>) }

SetFlagSamples ==
    { [f EXCEPT !.ecdsaPrivateKey = k, !.keystorePath = p, !.keystorePassword = w] :
        f \in OtherFlagSamples, k \in {<<>>, KeyFlag}, p \in {<<>>, PathFlag},
        w \in {<<>>, PasswordFlag} }

DefaultName == <<"d","e","f","a","u","l","t">>

\* the config files `context set` starts from: the current context holds at
\* most one signer form
InitialDiskFiles ==
    { DiskFile("absent", Config(<<>>, [n \in {} |-> EmptyContext])),
      DiskFile("valid", Config(<<>>, [n \in {DefaultName} |-> EmptyContext])),
      DiskFile("valid", Config(<<"g","o","n","e">>, [n \in {DefaultName} |-> EmptyContext])) }
    \cup
    { DiskFile("valid", Config(DefaultName, [n \in {DefaultName} |-> c])) :
        c \in { EmptyContext,
                [EmptyContext EXCEPT !.ECDSAPrivateKey = KeyFlag],
                [EmptyContext EXCEPT !.KeystorePath = <<"/","k","e","y","s","/","o","p","e","r","a","t","o","r",".","j","s","o","n">>,
                                     !.KeystorePassword = <<"s","e","c","r","e","t">>] } }

(***************************************************************************)
(* internal/eth: the write operations of Client and the ledger transport   *)
(***************************************************************************)
\* the two write operations
WriteOps == {"PublishMetadataURI", "PushRelease"}

\* "signer required for ..."
MsgSignerRequired(op) ==
    IF op = "PublishMetadataURI"
    THEN <<"s","i","g","n","e","r"," ","r","e","q","u","i","r","e","d"," ","f","o","r"," ","p","u","b","l","i","s","h","i","n","g"," ","m","e","t","a","d","a","t","a"," ","U","R","I">>
    ELSE <<"s","i","g","n","e","r"," ","r","e","q","u","i","r","e","d"," ","f","o","r"," ","p","u","s","h","i","n","g"," ","r","e","l","e","a","s","e","s">>

\* the prefix put before a failure of the contract call
MsgTransactFailed(op) ==
    IF op = "PublishMetadataURI"
    THEN <<"f","a","i","l","e","d"," ","t","o"," ","p","u","b","l","i","s","h"," ","m","e","t","a","d","a","t","a"," ","U","R","I",":"," ">>
    ELSE <<"f","a","i","l","e","d"," ","t","o"," ","p","u","b","l","i","s","h"," ","r","e","l","e","a","s","e",":"," ">>

MsgChainIDFailed == <<"f","a","i","l","e","d"," ","t","o"," ","g","e","t"," ","c","h","a","i","n"," ","I","D",":"," ">>

MsgNonceFailed == <<"f","a","i","l","e","d"," ","t","o"," ","g","e","t"," ","n","o","n","c","e",":"," ">>

MsgGasPriceFailed == <<"f","a","i","l","e","d"," ","t","o"," ","g","e","t"," ","g","a","s"," ","p","r","i","c","e",":"," ">>

MsgUnexpectedSigner == <<"u","n","e","x","p","e","c","t","e","d"," ","s","i","g","n","e","r"," ","a","d","d","r","e","s","s">>

\* the account of the ledger as the transport reports it: the nonce the account
\* started with, the transactions mined since and the transactions accepted
\* and not yet mined
Ledger(base, mined, pending) == [base |-> base, mined |-> mined, pending |-> pending]

\* the number of entries of txs sent by address
CountFrom(txs, address) ==
    Cardinality({i \in 1..Len(txs) : txs[i].from = address})

\* ethclient.NonceAt(ctx, address, nil): the confirmed transaction count
NonceAt(l, address) == l.base + CountFrom(l.mined, address)

\* ethclient.PendingNonceAt(ctx, address): the pending transaction count
PendingNonceAt(l, address) ==
    l.base + CountFrom(l.mined, address) + CountFrom(l.pending, address)

\* Faulty variant of QueryNonce: the confirmed count is read
QueryNonce_Confirmed(l, address) == NonceAt(l, address)

\* nonce, err := c.ethClient.PendingNonceAt(ctx, c.signer.Address())
QueryNonce(l, address) == PendingNonceAt(l, address)

\* &bind.TransactOpts{From, Nonce, GasLimit, GasPrice, Signer, Context}
TransactOpts(from, nonce, gasLimit, gasPrice) ==
    [From |-> from, Nonce |-> nonce, GasLimit |-> gasLimit, GasPrice |-> gasPrice]

\* the unsigned transaction the contract binding builds from opts
RawTransaction(opts, op) ==
    [nonce |-> opts.Nonce, gasPrice |-> opts.GasPrice, gas |-> opts.GasLimit,
     method |-> op]

\* no transaction (a nil *types.Transaction)
NilTransaction == [signed |-> FALSE]

\* SignTransaction(tx, chainID) of ECDSASigner and KeystoreSigner:
\* types.SignTx(tx, types.NewLondonSigner(chainID), s.privateKey); the
\* signature carries the chain id and recovers to the address of the key
SignTransaction(s, tx, chainID) ==
    [signed |-> TRUE, tx |-> tx, chainID |-> chainID,
     from |-> PubkeyToAddress(s.privateKey)]

\* Faulty variant of SignerCallback: the address is not compared
SignerCallback_AnyAddress(s, chainID, address, tx) ==
    [tx |-> SignTransaction(s, tx, chainID), err |-> NilError, signs |-> TRUE]

\* opts.Signer: func(address common.Address, tx *types.Transaction)
\* signs reports whether c.signer.SignTransaction was called
SignerCallback(s, chainID, address, tx) ==
    IF address # s.address
    THEN [tx |-> NilTransaction, err |-> Errorf(MsgUnexpectedSigner), signs |-> FALSE]
    ELSE [tx |-> SignTransaction(s, tx, chainID), err |-> NilError, signs |-> TRUE]

\* one call made during a write operation: the number of the operation, the
\* function called, whether it succeeded, and its argument or answer
LogEntry(n, call, ok, val) == [n |-> n, call |-> call, ok |-> ok, val |-> val]

(***************************************************************************)
(* Inputs of the write operations and answers of the transport             *)
(***************************************************************************)
\* the number of write operations one client performs
MaxWrites == 2

\* the default of --gas-limit
GasLimit == 500000

\* the failure of an RPC
ErrTransport == Errorf(<<"c","o","n","n","e","c","t","i","o","n"," ","r","e","f","u","s","e","d">>)

\* the answers of ChainID: mainnet, a local development chain, a failure
ChainIDAnswers ==
    { [val |-> 1, err |-> NilError],
      [val |-> 31337, err |-> NilError],
      [val |-> 0, err |-> ErrTransport] }

\* the answers of SuggestGasPrice
GasPriceAnswers ==
    { [val |-> 1000000000, err |-> NilError],
      [val |-> 0, err |-> ErrTransport] }

\* the signers a client is constructed with: none (NewClient), or one made
\* from a private key
WriteSigners == {NilSigner, NewECDSASigner(KeyAnvil0)}

\* the nonces the account of the signer starts with
BaseNonces == {0, 7}

\* the addresses the contract binding asks the callback to sign for
SignRequestAddresses(opts) == {opts.From, AddressB}

(***************************************************************************)
(* internal/eth: the chain defaults, and the connections of the commands   *)
(***************************************************************************)
\* common.FromHex(s): "0x" is dropped, an odd length is padded with "0" on
\* the left, and the bytes before the first invalid character are returned
FromHex(s) ==
    LET t == IF Len(s) >= 2 /\ s[1] = "0" /\ s[2] \in {"x", "X"}
             THEN SubSeq(s, 3, Len(s))
             ELSE s
        u == IF Len(t) % 2 = 1 THEN <<"0">> \o t ELSE t
        bad == {i \in 1..Len(u) : FromHexChar(u[i]) = -1}
        valid == IF bad = {}
                 THEN Len(u)
                 ELSE (CHOOSE i \in bad : \A j \in bad : i <= j) - 1
    IN  [i \in 1..(valid \div 2) |->
            16 * FromHexChar(u[2 * i - 1]) + FromHexChar(u[2 * i])]

\* common.BytesToAddress(b): the last 20 bytes, padded with zeros on the left
BytesToAddress(b) ==
    LET c == IF Len(b) > 20 THEN SubSeq(b, Len(b) - 19, Len(b)) ELSE b
    IN  [i \in 1..20 |-> IF i <= 20 - Len(c) THEN 0 ELSE c[i - (20 - Len(c))]]

\* common.HexToAddress(s)
HexToAddress(s) == BytesToAddress(FromHex(s))

\* common.Address{}
ZeroAddress == [i \in 1..20 |-> 0]

ZeroAddressHex == <<"0","x","0","0","0","0","0","0","0","0","0","0","0","0","0","0","0","0","0","0","0","0","0","0","0","0","0","0","0","0","0","0","0","0","0","0","0","0","0","0","0","0">>

\* GetDefaultContractAddresses(chainID): the field ReleaseManager and the error
GetDefaultContractAddresses(chainID) ==
    CASE chainID = 11155111 ->
            [ReleaseManager |-> <<"0","x","d","9","C","b","8","9","F","1","9","9","3","2","9","2","d","E","C","2","F","9","7","3","9","3","4","b","C","6","3","B","0","f","2","A","7","0","2","7","7","6">>,
             err |-> NilError]
      [] chainID = 31337 ->
            [ReleaseManager |-> <<"0","x","d","9","C","b","8","9","F","1","9","9","3","2","9","2","d","E","C","2","F","9","7","3","9","3","4","b","C","6","3","B","0","f","2","A","7","0","2","7","7","6">>,
             err |-> NilError]
      [] chainID = 1 ->
            [ReleaseManager |-> ZeroAddressHex, err |-> NilError]
      [] OTHER ->
            [ReleaseManager |-> <<>>,
             err |-> Errorf(<<"d","e","f","a","u","l","t"," ","c","o","n","t","r","a","c","t"," ","a","d","d","r","e","s","s","e","s"," ","n","o","t"," ","f","o","u","n","d"," ","f","o","r"," ","c","h","a","i","n"," ","I","D"," ">>
                            \o FormatDecimal(chainID))]

\* GetReleaseManagerAddress: whether the provided address is used
ProvidedAddressUsed(providedAddress) ==
    providedAddress # <<>> /\ providedAddress # ZeroAddressHex

\* GetReleaseManagerAddress, after GetChainID answered chainID
DefaultReleaseManagerAddress(chainID) ==
    LET defaults == GetDefaultContractAddresses(chainID)
    IN  IF defaults.err.isErr
        THEN [addr |-> ZeroAddress,
              err |-> Wrapf(<<"n","o"," ","d","e","f","a","u","l","t"," ","R","e","l","e","a","s","e","M","a","n","a","g","e","r"," ","f","o","r"," ","c","h","a","i","n"," ">>
                            \o FormatDecimal(chainID) \o <<":"," ">>, defaults.err)]
        ELSE [addr |-> HexToAddress(defaults.ReleaseManager), err |-> NilError]

\* the commands that open a ledger connection
Commands == {"pull", "run", "push", "metadata set", "metadata get"}

\* a connection made by ethclient.Dial: who dialed it and whether it is open
Connection(by, open) == [by |-> by, open |-> open]

\* the failure of the steps of a command between the address resolution and
\* the construction of the client; pull and metadata get have none
PrepareFailure(command) ==
    CASE command = "push" -> Errorf(<<"a","t"," ","l","e","a","s","t"," ","o","n","e"," ","-","-","i","m","a","g","e"," ","i","s"," ","r","e","q","u","i","r","e","d">>)
      [] command = "metadata set" -> Errorf(<<"-","-","u","r","i"," ","i","s"," ","r","e","q","u","i","r","e","d">>)
      [] command = "run" ->
            Errorf(<<"i","n","v","a","l","i","d"," ","e","n","v"," ","f","o","r","m","a","t",":"," ","N","O","E","Q","U","A","L","S"," ","(","e","x","p","e","c","t","e","d"," ","K","E","Y","=","V","A","L","U","E",")">>)
      [] OTHER -> NilError

\* the failure of the first ledger call a command makes with its client
BodyFailure(command) ==
    CASE command = "pull" ->
            Errorf(<<"f","a","i","l","e","d"," ","t","o"," ","c","h","e","c","k"," ","r","e","l","e","a","s","e","s",":"," ","f","a","i","l","e","d"," ","t","o"," ","g","e","t"," ","t","o","t","a","l"," ","r","e","l","e","a","s","e","s",":"," ","c","o","n","n","e","c","t","i","o","n"," ","r","e","f","u","s","e","d">>)
      [] command = "run" ->
            Errorf(<<"f","a","i","l","e","d"," ","t","o"," ","g","e","t"," ","l","a","t","e","s","t"," ","r","e","l","e","a","s","e",":"," ","f","a","i","l","e","d"," ","t","o"," ","g","e","t"," ","l","a","t","e","s","t"," ","r","e","l","e","a","s","e",":"," ","c","o","n","n","e","c","t","i","o","n"," ","r","e","f","u","s","e","d">>)
      [] command = "push" ->
            Errorf(<<"f","a","i","l","e","d"," ","t","o"," ","c","h","e","c","k"," ","m","e","t","a","d","a","t","a"," ","U","R","I",":"," ","f","a","i","l","e","d"," ","t","o"," ","g","e","t"," ","m","e","t","a","d","a","t","a"," ","U","R","I",":"," ","c","o","n","n","e","c","t","i","o","n"," ","r","e","f","u","s","e","d">>)
      [] command = "metadata set" ->
            Errorf(<<"f","a","i","l","e","d"," ","t","o"," ","p","u","b","l","i","s","h"," ","m","e","t","a","d","a","t","a"," ","U","R","I",":"," ","f","a","i","l","e","d"," ","t","o"," ","g","e","t"," ","c","h","a","i","n"," ","I","D",":"," ","c","o","n","n","e","c","t","i","o","n"," ","r","e","f","u","s","e","d">>)
      [] command = "metadata get" ->
            Errorf(<<"f","a","i","l","e","d"," ","t","o"," ","g","e","t"," ","m","e","t","a","d","a","t","a"," ","U","R","I",":"," ","f","a","i","l","e","d"," ","t","o"," ","g","e","t"," ","m","e","t","a","d","a","t","a"," ","U","R","I",":"," ","c","o","n","n","e","c","t","i","o","n"," ","r","e","f","u","s","e","d">>)

\* the values of --release-manager (or of the context)
ProvidedAddresses ==
    { <<>>, ZeroAddressHex, <<"0","x","1","2","3","4","5","6","7","8","9","0","1","2","3","4","5","6","7","8","9","0","1","2","3","4","5","6","7","8","9","0","1","2","3","4","5","6","7","8","9","0">>,
      <<"0","x","0">> }

\* the answers of ChainID to GetChainID: the chains with defaults, a chain
\* without, a failure
DefaultsChainIDAnswers ==
    { [val |-> 1, err |-> NilError],
      [val |-> 31337, err |-> NilError],
      [val |-> 11155111, err |-> NilError],
      [val |-> 17000, err |-> NilError],
      [val |-> 0, err |-> ErrTransport] }

(***************************************************************************)
(* The command push: getImageDigest and its string functions               *)
(***************************************************************************)
\* the white space of strings.TrimSpace and strings.Fields
WhiteSpace == {" ", "\n", "\t", "\r"}

\* strings.Trim(s, cutset), the cutset given as a set of characters
Trim(s, cutset) ==
    LET kept == {i \in 1..Len(s) : s[i] \notin cutset}
    IN  IF kept = {}
        THEN <<>>
        ELSE SubSeq(s, CHOOSE i \in kept : \A j \in kept : i <= j,
                       CHOOSE i \in kept : \A j \in kept : j <= i)

\* strings.TrimSpace(s)
TrimSpace(s) == Trim(s, WhiteSpace)

RECURSIVE SplitAt(_, _)
\* strings.Split(s, sep) for a separator of one character and a non-empty s:
\* the parts between the separators, empty parts included
SplitAt(s, sep) ==
    IF \E i \in 1..Len(s) : s[i] = sep
    THEN LET i == CHOOSE i \in 1..Len(s) :
                     s[i] = sep /\ \A j \in 1..(i - 1) : s[j] # sep
         IN  <<SubSeq(s, 1, i - 1)>> \o SplitAt(SubSeq(s, i + 1, Len(s)), sep)
    ELSE <<s>>

\* strings.Fields(s): the parts between runs of white space
Fields(s) ==
    LET blanked == [i \in 1..Len(s) |-> IF s[i] \in WhiteSpace THEN " " ELSE s[i]]
    IN  IF Len(s) = 0
        THEN <<>>
        ELSE SelectSeq(SplitAt(blanked, " "), LAMBDA p : p # <<>>)

\* strings.TrimPrefix(s, prefix)
TrimPrefix(s, prefix) ==
    IF HasPrefix(s, prefix) THEN SubSeq(s, Len(prefix) + 1, Len(s)) ELSE s

\* fmt.Sscanf(pair, "%02x", &b) on a byte that is 0: up to two hex digits are
\* read; without a leading hex digit the scan fails and the byte stays 0
ScanHexByte(pair) ==
    IF FromHexChar(pair[1]) = -1
    THEN 0
    ELSE IF FromHexChar(pair[2]) = -1
    THEN FromHexChar(pair[1])
    ELSE 16 * FromHexChar(pair[1]) + FromHexChar(pair[2])

\* the result of getImageDigest; panics: the slice expression
\* hexDigest[i*2:i*2+2] is out of range
ImageDigest(digest, registry, err, panics) ==
    [digest |-> digest, registry |-> registry, err |-> err, panics |-> panics]

\* getImageDigest: the registry taken from "registry/image"
RegistryOf(registryImage) ==
    LET registryParts == SplitAt(registryImage, "/")
    IN  IF /\ Len(registryParts) > 1
           /\ (Contains(registryParts[1], <<".">>) \/ Contains(registryParts[1], <<":">>))
        THEN registryParts[1]
        ELSE <<>>

\* getImageDigest(image), from the output of docker inspect on
ParseRepoDigests(output) ==
    LET digestStr == Trim(TrimSpace(output), {"[", "]"})
        digests == Fields(digestStr)
        firstDigest == digests[1]
        parts == SplitAt(firstDigest, "@")
        hexDigest == TrimPrefix(parts[2], Sha256Prefix)
    IN  IF digestStr = <<>>
        THEN ImageDigest(<<>>, <<>>,
                 Errorf(<<"n","o"," ","d","i","g","e","s","t"," ","f","o","u","n","d"," ","f","o","r"," ","i","m","a","g","e"," ","(","m","a","y"," ","n","e","e","d"," ","t","o"," ","p","u","l","l"," ","f","i","r","s","t",")">>), FALSE)
        ELSE IF Len(digests) = 0
        THEN ImageDigest(<<>>, <<>>, Errorf(<<"n","o"," ","d","i","g","e","s","t"," ","f","o","u","n","d"," ","f","o","r"," ","i","m","a","g","e">>), FALSE)
        ELSE IF Len(parts) # 2
        THEN ImageDigest(<<>>, <<>>,
                 Errorf(<<"u","n","e","x","p","e","c","t","e","d"," ","d","i","g","e","s","t"," ","f","o","r","m","a","t",":"," ">> \o firstDigest), FALSE)
        ELSE IF ~HasPrefix(parts[2], Sha256Prefix)
        THEN ImageDigest(<<>>, <<>>,
                 Errorf(<<"u","n","e","x","p","e","c","t","e","d"," ","d","i","g","e","s","t"," ","f","o","r","m","a","t",":"," ">> \o parts[2]), FALSE)
        ELSE IF Len(hexDigest) < 2 * DigestLen
        THEN ImageDigest(<<>>, <<>>, NilError, TRUE)
        ELSE ImageDigest(
                 [i \in 1..DigestLen |-> ScanHexByte(SubSeq(hexDigest, 2 * i - 1, 2 * i))],
                 RegistryOf(parts[1]), NilError, FALSE)

\* the first reference docker inspect reported, when there is one
ReportedReference(output) ==
    Fields(Trim(TrimSpace(output), {"[", "]"}))[1]

\* "no metadata URI set for this operator set ..."
MsgNoMetadataURI(avs, operatorSetID) ==
    <<"n","o"," ","m","e","t","a","d","a","t","a"," ","U","R","I"," ","s","e","t"," ","f","o","r"," ","t","h","i","s"," ","o","p","e","r","a","t","o","r"," ","s","e","t","\n","\n","P","l","e","a","s","e"," ","s","e","t"," ","a"," ","m","e","t","a","d","a","t","a"," ","U","R","I"," ","f","i","r","s","t"," ","w","i","t","h",":","\n"," "," ","f","l","i","c","k","r"," ","m","e","t","a","d","a","t","a"," ","s","e","t"," ","-","-","u","r","i"," ","\"","h","t","t","p","s",":","/","/","y","o","u","r","-","m","e","t","a","d","a","t","a","-","u","r","i",".","j","s","o","n","\"","\n","\n","C","u","r","r","e","n","t"," ","c","o","n","f","i","g","u","r","a","t","i","o","n",":","\n"," "," ","A","V","S",":"," ">>
    \o AddressHex(avs) \o <<"\n"," "," ","O","p","e","r","a","t","o","r"," ","S","e","t",":"," ">> \o FormatDecimal(operatorSetID)

(***************************************************************************)
(* Inputs of the command push and answers of its collaborators             *)
(***************************************************************************)
\* the number of --image flags
MaxImages == 2

\* the i-th --image
ImageName(i) == <<"r","e","g","i","s","t","r","y",".","e","x","a","m","p","l","e",".","c","o","m","/","a","v","s",":","v">> \o FormatDecimal(i)

\* the outputs of docker inspect --format {{.RepoDigests}}: an image of a
\* registry with a repository path, an image of Docker Hub, an image of a
\* local registry, an image with two digests, an image without digest
InspectOutputs ==
    { <<"[","g","h","c","r",".","i","o","/","o","r","g","/","a","p","p","@","s","h","a","2","5","6",":">> \o Repeat(<<"a", "a">>, 32) \o <<"]","\n">>,
      <<"[","a","l","p","i","n","e","@","s","h","a","2","5","6",":">> \o EncodeToString(IotaDigest) \o <<"]","\n">>,
      <<"[","l","o","c","a","l","h","o","s","t",":","5","0","0","0","/","a","p","p","@","s","h","a","2","5","6",":">> \o Repeat(<<"0", "1">>, 32) \o <<"]","\n">>,
      <<"[","r","e","g","i","s","t","r","y",".","i","o","/","a","p","p","@","s","h","a","2","5","6",":">> \o Repeat(<<"b", "c">>, 32)
          \o <<" ","m","i","r","r","o","r",".","i","o","/","a","p","p","@","s","h","a","2","5","6",":">> \o Repeat(<<"b", "c">>, 32) \o <<"]","\n">>,
      <<"[","]","\n">> }

\* the values of --registry
RegistryFlags == { <<>>, <<"g","h","c","r",".","i","o","/","o","r","g","/","o","v","e","r","r","i","d","e">> }

\* the values of --avs and --rpc-url (the context has neither)
AvsFlags == { <<>>, <<"0","x","1","2","3","4","5","6","7","8","9","0","1","2","3","4","5","6","7","8","9","0","1","2","3","4","5","6","7","8","9","0","1","2","3","4","5","6","7","8","9","0">> }

RpcURLFlags == { <<>>, <<"h","t","t","p",":","/","/","l","o","c","a","l","h","o","s","t",":","8","5","4","5">> }

\* time.Now().Unix() when the command runs
NowUnix == 1762167600

\* the default of upgradeByTime: 30 days from now
DefaultUpgradeByTime == NowUnix + 30 * 24 * 3600

\* the failure of a docker subprocess
ErrExitStatus == Errorf(<<"e","x","i","t"," ","s","t","a","t","u","s"," ","1">>)

\* the answers of GetMetadataURI
MetadataURIAnswers ==
    { [val |-> <<"h","t","t","p","s",":","/","/","e","x","a","m","p","l","e",".","c","o","m","/","a","v","s","-","m","e","t","a","d","a","t","a",".","j","s","o","n">>, err |-> NilError],
      [val |-> <<>>, err |-> NilError],
      [val |-> <<>>, err |-> Wrapf(<<"f","a","i","l","e","d"," ","t","o"," ","g","e","t"," ","m","e","t","a","d","a","t","a"," ","U","R","I",":"," ">>, ErrTransport)] }

(***************************************************************************)
(* internal/signer: SignMessage                                            *)
(***************************************************************************)
\* accounts.TextHash(msg): the Keccak-256 hash of the prefixed message, kept
\* as the data that is hashed
TextHash(msg) ==
    [keccak256 |-> <<"\\x19">> \o <<"E","t","h","e","r","e","u","m"," ","S","i","g","n","e","d"," ","M","e","s","s","a","g","e",":","\n">>
                   \o FormatDecimal(Len(msg)) \o msg]

\* crypto.Sign(hash, key) answered r, s and the recovery id v: [R || S || V]
RawSignature(r, s, v) == r \o s \o <<v>>

\* Faulty variant of TransformV: 27 is added whatever the value
TransformV_Always(sig) == [sig EXCEPT ![65] = (@ + 27) % 256]

\* if sig[64] < 27 { sig[64] += 27 }
TransformV(sig) == IF sig[65] < 27 THEN [sig EXCEPT ![65] = (@ + 27) % 256] ELSE sig

\* (s *ECDSASigner) SignMessage(msg), crypto.Sign answering raw: the hash and
\* key handed to crypto.Sign, and the ([]byte, error) returned
ECDSASignMessage(s, msg, raw) ==
    [hash |-> TextHash(msg), key |-> s.privateKey,
     sig |-> IF raw.err.isErr THEN <<>> ELSE TransformV(raw.sig),
     err |-> IF raw.err.isErr
             THEN Wrapf(<<"f","a","i","l","e","d"," ","t","o"," ","s","i","g","n"," ","m","e","s","s","a","g","e",":"," ">>, raw.err)
             ELSE NilError]

\* (s *KeystoreSigner) SignMessage(msg): an ECDSASigner of the same key signs
KeystoreSignMessage(s, msg, raw) ==
    ECDSASignMessage([typ |-> "*ECDSASigner", present |-> TRUE,
                      privateKey |-> s.privateKey, address |-> s.address],
                     msg, raw)

\* sig.SignMessage(msg) through the interface Signer
SignMessage(s, msg, raw) ==
    IF s.typ = "*KeystoreSigner"
    THEN KeystoreSignMessage(s, msg, raw)
    ELSE ECDSASignMessage(s, msg, raw)

\* the signers SignMessage is called on
MessageSigners ==
    { NewECDSASigner(KeyAnvil0),
      NewKeystoreSigner(<<"/","k","e","y","s","/","o","p","e","r","a","t","o","r",".","j","s","o","n">>, <<"s","e","c","r","e","t">>).signer }

\* the messages signed
MessageSamples ==
    { <<>>, <<"H","e","l","l","o",","," ","F","l","i","c","k","r","!">>, <<"a">>, <<"0","1","2","3","4","5","6","7","8","9">> }

\* the answers of crypto.Sign: r and s, the recovery id 0 or 1 or the same
\* already moved to 27 or 28, and a failure
SignAnswers ==
    { [sig |-> RawSignature(r, s, v), err |-> NilError] :
        r \in {FillDigest(17), IotaDigest}, s \in {FillDigest(34), LastByteDigest(1)},
        v \in {0, 1, 27, 28} }
    \cup { [sig |-> <<>>, err |-> Errorf(<<"i","n","v","a","l","i","d"," ","p","r","i","v","a","t","e"," ","k","e","y">>)] }

(***************************************************************************)
(* The command pull                                                        *)
(***************************************************************************)
\* avs.Hex() of the operator set the command reads
PullAvsHex == <<"0","x","1","2","3","4","5","6","7","8","9","0","1","2","3","4","5","6","7","8","9","0","1","2","3","4","5","6","7","8","9","0","1","2","3","4","5","6","7","8","9","0">>

\* operatorSetID of the operator set the command reads
PullOperatorSetID == 0

MsgPullNoReleasesFound ==
    <<"n","o"," ","r","e","l","e","a","s","e","s"," ","f","o","u","n","d"," ","f","o","r"," ","t","h","i","s"," ","o","p","e","r","a","t","o","r"," ","s","e","t","\n","\n","T","o"," ","p","u","s","h"," ","a"," ","r","e","l","e","a","s","e",","," ","r","u","n",":","\n"," "," ","f","l","i","c","k","r"," ","p","u","s","h"," ","-","-","i","m","a","g","e"," ","<","y","o","u","r","-","i","m","a","g","e",">","\n","\n","C","u","r","r","e","n","t"," ","c","o","n","f","i","g","u","r","a","t","i","o","n",":","\n"," "," ","A","V","S",":"," ">>
    \o PullAvsHex \o <<"\n"," "," ","O","p","e","r","a","t","o","r"," ","S","e","t",":"," ">> \o FormatDecimal(PullOperatorSetID)

MsgReleaseDoesNotExist(releaseID, total) ==
    <<"r","e","l","e","a","s","e"," ","I","D"," ">> \o FormatDecimal(releaseID)
    \o <<" ","d","o","e","s"," ","n","o","t"," ","e","x","i","s","t"," ","(","t","o","t","a","l"," ","r","e","l","e","a","s","e","s",":"," ">> \o FormatDecimal(total) \o <<")">>

MsgPullNoReleasesAvailable ==
    <<"n","o"," ","r","e","l","e","a","s","e","s"," ","a","v","a","i","l","a","b","l","e"," ","f","o","r"," ","t","h","i","s"," ","o","p","e","r","a","t","o","r"," ","s","e","t","\n","\n","T","o"," ","p","u","s","h"," ","a"," ","r","e","l","e","a","s","e",","," ","r","u","n",":","\n"," "," ","f","l","i","c","k","r"," ","p","u","s","h"," ","-","-","i","m","a","g","e"," ","<","y","o","u","r","-","i","m","a","g","e",">">>

\* the error pull returns when GetLatestRelease failed with err
PullLatestError(err) ==
    IF \/ Contains(err.msg, <<"a","r","i","t","h","m","e","t","i","c"," ","u","n","d","e","r","f","l","o","w">>)
       \/ Contains(err.msg, <<"N","o","R","e","l","e","a","s","e","s">>)
    THEN Errorf(MsgPullNoReleasesAvailable)
    ELSE Wrapf(<<"f","a","i","l","e","d"," ","t","o"," ","g","e","t"," ","l","a","t","e","s","t"," ","r","e","l","e","a","s","e",":"," ">>, err)

MsgNoArtifactsInRelease(releaseID) ==
    <<"n","o"," ","a","r","t","i","f","a","c","t","s"," ","i","n"," ","r","e","l","e","a","s","e"," ">> \o FormatDecimal(releaseID)

\* Faulty variant of ArtifactsToPull: every artifact is taken whatever --all says
ArtifactsToPull_AllAlways(all, artifacts) == artifacts

\* artifactsToPull, from the flag --all and release.Artifacts
ArtifactsToPull(all, artifacts) ==
    IF ~all /\ Len(artifacts) > 1 THEN SubSeq(artifacts, 1, 1) ELSE artifacts

\* i is the index of the range loop, which starts at 0
MsgBuildReferenceFailed(i, err) ==
    Wrapf(<<"f","a","i","l","e","d"," ","t","o"," ","b","u","i","l","d"," ","r","e","f","e","r","e","n","c","e"," ","f","o","r"," ","a","r","t","i","f","a","c","t"," ">> \o FormatDecimal(i)
          \o <<":"," ">>, err)

\* fmt.Errorf("failed to pull image %s: %v\n%s", reference, err, string(output))
MsgPullFailed(reference, err, output) ==
    Errorf(<<"f","a","i","l","e","d"," ","t","o"," ","p","u","l","l"," ","i","m","a","g","e"," ">> \o reference \o <<":"," ">> \o err.msg
           \o <<"\n">> \o output)

\* an entry of the log of the calls the command makes
PullCall(call, arg, ok) == [call |-> call, arg |-> arg, ok |-> ok]

(***************************************************************************)
(* Inputs of the command pull and answers of its collaborators             *)
(***************************************************************************)
PullArtifactSamples ==
    { Artifact(<<"f","i","r","s","t",".","i","o","/","i","m","a","g","e">>, FirstByteDigest(17)),
      Artifact(<<"s","e","c","o","n","d",".","i","o","/","i","m","a","g","e">>, FirstByteDigest(34)),
      Artifact(<<>>, FillDigest(170)) }

\* the releases of the operator set: none, one, or one after a first release
PullLedgers ==
    LET releases == {Release(as, 0) : as \in SeqsUpTo(PullArtifactSamples, MaxArtifacts)}
        first == Release(<<Artifact(<<"g","h","c","r",".","i","o","/","o","r","g","/","i","m","a","g","e">>, FillDigest(170))>>, 123456)
    IN  {<<>>} \cup {<<r>> : r \in releases} \cup {<<first, r>> : r \in releases}

\* the flags --release-id and --all
PullFlags ==
    { [releaseIdIsSet |-> FALSE, releaseId |-> 0, all |-> a] : a \in BOOLEAN }
    \cup { [releaseIdIsSet |-> TRUE, releaseId |-> n, all |-> a] :
             n \in {0, 1, 5}, a \in BOOLEAN }

\* what rmClient.GetTotalReleases may return for the ledger
TotalReleasesAnswers(ledger) ==
    { [val |-> Len(ledger), err |-> NilError],
      [val |-> 0, err |-> Wrapf(<<"f","a","i","l","e","d"," ","t","o"," ","g","e","t"," ","t","o","t","a","l"," ","r","e","l","e","a","s","e","s",":"," ">>, ErrTransport)] }

\* what rmClient.GetRelease may return: the contract reverts out of range
GetReleaseAnswers(ledger, releaseID) ==
    IF releaseID < Len(ledger)
    THEN { [rel |-> ledger[releaseID + 1], err |-> NilError],
           [rel |-> Release(<<>>, 0),
            err |-> Wrapf(<<"f","a","i","l","e","d"," ","t","o"," ","g","e","t"," ","r","e","l","e","a","s","e"," ","f","r","o","m"," ","c","o","n","t","r","a","c","t",":"," ">>, ErrTransport)] }
    ELSE { [rel |-> Release(<<>>, 0),
            err |-> Wrapf(<<"f","a","i","l","e","d"," ","t","o"," ","g","e","t"," ","r","e","l","e","a","s","e"," ","f","r","o","m"," ","c","o","n","t","r","a","c","t",":"," ">>,
                          Errorf(<<"e","x","e","c","u","t","i","o","n"," ","r","e","v","e","r","t","e","d",":"," ","p","a","n","i","c",":"," ","a","r","r","a","y"," ","o","u","t","-","o","f","-","b","o","u","n","d","s"," ","a","c","c","e","s","s"," ","(","0","x","3","2",")">>))] }

\* what rmClient.GetLatestRelease may return; the node that answers may be
\* behind the one that answered GetTotalReleases
GetLatestReleaseAnswers(ledger) ==
    { [rel |-> Release(<<>>, 0), id |-> 0,
       err |-> Wrapf(<<"f","a","i","l","e","d"," ","t","o"," ","g","e","t"," ","l","a","t","e","s","t"," ","r","e","l","e","a","s","e",":"," ">>, e)] :
        e \in {ErrTransport, Errorf(<<"e","x","e","c","u","t","i","o","n"," ","r","e","v","e","r","t","e","d",":"," ","N","o","R","e","l","e","a","s","e","s">>)} }
    \cup IF ledger = <<>> THEN {}
         ELSE {[rel |-> ledger[Len(ledger)], id |-> Len(ledger) - 1, err |-> NilError]}

\* what `docker pull` may answer: its error and its combined output
DockerPullAnswers ==
    { [err |-> NilError, output |-> <<"S","t","a","t","u","s",":"," ","D","o","w","n","l","o","a","d","e","d"," ","n","e","w","e","r"," ","i","m","a","g","e","\n">>],
      [err |-> ErrExitStatus,
       output |-> <<"E","r","r","o","r"," ","r","e","s","p","o","n","s","e"," ","f","r","o","m"," ","d","a","e","m","o","n",":"," ","m","a","n","i","f","e","s","t"," ","u","n","k","n","o","w","n","\n">>] }

(***************************************************************************)
(* State                                                                   *)
(***************************************************************************)
VARIABLES
    refRegistry,    \* BuildReference: argument registry
    refDigest,      \* BuildReference: argument digest
    refD32,         \* Digest32ToSha256String: argument d
    refCalled,      \* which function of internal/ref has been applied
    refStr,         \* the string Digest32ToSha256String returned
    refOut,         \* the (string, error) BuildReference returned
    pc,             \* Execute: the position in the function
    cfg,            \* Execute: the argument cfg RunConfig
    rel,            \* Execute: the local rel
    relID,          \* Execute: the local relID
    reference,      \* Execute: the local reference
    execErr,        \* Execute: the error returned
    rmCalls,        \* the calls made to the ledger client, with their answers
    pullCalls,      \* the calls made to Docker.Pull, with their answers
    runCalls,       \* the calls made to Docker.Run, with their answers
    sigCtx,         \* FromContext: the argument ctx
    sigCalled,      \* which function of internal/signer has been applied
    sigOut,         \* the (Signer, error) FromContext returned
    sigReads,       \* the keystore files read by FromContext
    sigPair,        \* NewECDSASignerFromHex applied to a key without and with "0x"
    disk,           \* the config file ~/.flickr/config.json
    diskBefore,     \* the config file when the last `context set` started
    setFlags,       \* the flags of the last `context set`
    setErr,         \* the error the last `context set` returned
    setCalled,      \* whether `context set` has run
    wSigner,        \* Client: the field signer
    ledger,         \* the account of the signer as the transport reports it
    wpc,            \* write operation: the position in the function
    wOp,            \* write operation: which of the two is running
    wCount,         \* the number of write operations started
    wChainID,       \* write operation: the local chainID
    wNonce,         \* write operation: the local nonce
    wGasPrice,      \* write operation: the local gasPrice
    wTx,            \* write operation: the transaction the callback returned
    wRet,           \* write operation: the transaction returned
    wErr,           \* write operation: the error returned
    wLog,           \* the calls made to the transport and to the signer
    command,        \* the command being run
    cpc,            \* command: the position in the action function
    cProvided,      \* command: the release manager address provided
    cAddr,          \* command: the local rmAddr
    cErr,           \* command: the error returned
    conns,          \* the connections dialed during the command
    pFlags,         \* push: the flags avs, rpcURL, images, skipDockerPush, registry
    ppc,            \* push: the position in pushAction
    pIdx,           \* push: the index of the image being processed
    pArtifacts,     \* push: the local artifacts
    pReported,      \* push: the reference docker inspect reported for each artifact
    pErr,           \* push: the error returned
    pCalls,         \* push: the calls made to docker and to the ledger client
    pReleases,      \* the releases the ledger recorded
    smSigner,       \* SignMessage: the receiver
    smMsg,          \* SignMessage: the argument msg
    smRaw,          \* SignMessage: the answer of crypto.Sign
    smOut,          \* SignMessage: the call of crypto.Sign and the result
    smCalled,       \* whether SignMessage has been called
    plFlags,        \* pull: the flags --release-id and --all
    plLedger,       \* pull: the releases of the operator set on the ledger
    plpc,           \* pull: the position of pullAction
    plTotal,        \* pull: total, as GetTotalReleases returned it
    plRelease,      \* pull: release
    plReleaseID,    \* pull: releaseID
    plToPull,       \* pull: artifactsToPull
    plIdx,          \* pull: the artifact the loop is at, counted from 1
    plPulled,       \* pull: pulledImages
    plErr,          \* pull: the error pullAction returned
    plCalls         \* pull: the calls made to the ledger client and to docker

refVars == <<refRegistry, refDigest, refD32, refCalled, refStr, refOut>>

ctrlVars == <<pc, cfg, rel, relID, reference, execErr, rmCalls, pullCalls, runCalls>>

sigVars == <<sigCtx, sigCalled, sigOut, sigReads, sigPair>>

setVars == <<disk, diskBefore, setFlags, setErr, setCalled>>

writeVars == <<wSigner, ledger, wpc, wOp, wCount, wChainID, wNonce, wGasPrice, wTx,
               wRet, wErr, wLog>>

cmdVars == <<command, cpc, cProvided, cAddr, cErr, conns>>

pushVars == <<pFlags, ppc, pIdx, pArtifacts, pReported, pErr, pCalls, pReleases>>

smVars == <<smSigner, smMsg, smRaw, smOut, smCalled>>

plVars == <<plFlags, plLedger, plpc, plTotal, plRelease, plReleaseID, plToPull,
            plIdx, plPulled, plErr, plCalls>>

vars == <<refVars, ctrlVars, sigVars, setVars, writeVars, cmdVars, pushVars, smVars, plVars>>

\* the state outside the reference resolver
exceptRef == <<ctrlVars, sigVars, setVars, writeVars, cmdVars, pushVars, smVars, plVars>>

\* the state outside Controller.Execute
exceptCtrl == <<refVars, sigVars, setVars, writeVars, cmdVars, pushVars, smVars, plVars>>

\* the state outside the signer factory
exceptSig == <<refVars, ctrlVars, setVars, writeVars, cmdVars, pushVars, smVars, plVars>>

\* the state outside `context set`
exceptSet == <<refVars, ctrlVars, sigVars, writeVars, cmdVars, pushVars, smVars, plVars>>

\* the state outside the write operations
exceptWrite == <<refVars, ctrlVars, sigVars, setVars, cmdVars, pushVars, smVars, plVars>>

\* the state outside the commands
exceptCmd == <<refVars, ctrlVars, sigVars, setVars, writeVars, pushVars, smVars, plVars>>

\* the state outside the command push
exceptPush == <<refVars, ctrlVars, sigVars, setVars, writeVars, cmdVars, smVars, plVars>>

\* the state outside SignMessage
exceptSm == <<refVars, ctrlVars, sigVars, setVars, writeVars, cmdVars, pushVars, plVars>>

\* the state outside the command pull
exceptPl == <<refVars, ctrlVars, sigVars, setVars, writeVars, cmdVars, pushVars, smVars>>

(***************************************************************************)
(* The reference resolver applied to its inputs                            *)
(***************************************************************************)
RefIdle ==
    /\ refCalled = "none"
    /\ refStr = <<>>
    /\ refOut = RefResult(<<>>, NilError)

\* no Execute is in progress and none has returned
CtrlIdle ==
    /\ pc = "idle"
    /\ cfg = [AVS |-> AddressB, OperatorSetID |-> 0, ReleaseID |-> NilReleaseID,
              Name |-> <<>>, Detached |-> FALSE, Env |-> NoEnv, Cmd |-> <<>>]
    /\ rel = ZeroRelease
    /\ relID = 0
    /\ reference = <<>>
    /\ execErr = NilError
    /\ rmCalls = <<>>
    /\ pullCalls = <<>>
    /\ runCalls = <<>>

\* NewECDSASignerFromHex has not been applied
NoPair ==
    [hexKey |-> <<>>,
     bare |-> SignerResult(NilSigner, NilError),
     prefixed |-> SignerResult(NilSigner, NilError)]

\* FromContext has not been applied
SignerIdle ==
    /\ sigCalled = "none"
    /\ sigOut = SignerResult(NilSigner, NilError)
    /\ sigReads = <<>>
    /\ sigPair = NoPair

\* the reference resolver is not in use
RefUnused ==
    /\ refRegistry = <<>>
    /\ refDigest = <<>>
    /\ refD32 = FillDigest(0)
    /\ RefIdle

\* the signer factory is not in use
SignerUnused ==
    /\ sigCtx = Context(<<>>, 0, <<>>, <<>>, <<>>, NoEnv, <<>>, <<>>, <<>>)
    /\ SignerIdle

\* `context set` is not in use
SetIdle ==
    /\ diskBefore = disk
    /\ setFlags = SetFlags(<<>>, FALSE, 0, <<>>, <<>>, <<>>, <<>>, <<>>, <<>>, <<>>)
    /\ setErr = NilError
    /\ setCalled = FALSE

\* the config file is not in use
SetUnused ==
    /\ disk = DiskFile("absent", Config(<<>>, [n \in {} |-> EmptyContext]))
    /\ SetIdle

\* no write operation has started
WriteIdle ==
    /\ wpc = "idle"
    /\ wOp = "none"
    /\ wCount = 0
    /\ wChainID = 0
    /\ wNonce = 0
    /\ wGasPrice = 0
    /\ wTx = NilTransaction
    /\ wRet = NilTransaction
    /\ wErr = NilError
    /\ wLog = <<>>

\* the write operations are not in use
WriteUnused ==
    /\ wSigner = NilSigner
    /\ ledger = Ledger(0, <<>>, <<>>)
    /\ WriteIdle

\* the command has not done anything yet
CmdIdle ==
    /\ cpc = "start"
    /\ cAddr = ZeroAddress
    /\ cErr = NilError
    /\ conns = <<>>

\* no command is run
CmdUnused ==
    /\ command = "none"
    /\ cProvided = <<>>
    /\ CmdIdle

\* pushAction has not started
PushIdle ==
    /\ ppc = "start"
    /\ pIdx = 1
    /\ pArtifacts = <<>>
    /\ pReported = <<>>
    /\ pErr = NilError
    /\ pCalls = <<>>
    /\ pReleases = <<>>

\* the command push is not run
PushUnused ==
    /\ pFlags = [avs |-> <<>>, rpcURL |-> <<>>, images |-> 0,
                 skipDockerPush |-> FALSE, registry |-> <<>>]
    /\ PushIdle

\* SignMessage has not been called
SmIdle ==
    /\ smRaw = [sig |-> <<>>, err |-> NilError]
    /\ smOut = [hash |-> TextHash(<<>>), key |-> <<>>, sig |-> <<>>, err |-> NilError]
    /\ smCalled = FALSE

\* SignMessage is not in use
SmUnused ==
    /\ smSigner = NilSigner
    /\ smMsg = <<>>
    /\ SmIdle

\* pullAction has its client and has made no call yet
PlIdle ==
    /\ plpc = "GetTotalReleases"
    /\ plTotal = 0
    /\ plRelease = Release(<<>>, 0)
    /\ plReleaseID = 0
    /\ plToPull = <<>>
    /\ plIdx = 1
    /\ plPulled = <<>>
    /\ plErr = NilError
    /\ plCalls = <<>>

\* the command pull is not in use
PlUnused ==
    /\ plFlags = [releaseIdIsSet |-> FALSE, releaseId |-> 0, all |-> FALSE]
    /\ plLedger = <<>>
    /\ PlIdle

InitRef ==
    /\ refRegistry \in RefRegistries
    /\ refDigest \in RefDigestStrings
    /\ refD32 \in Digest32Samples
    /\ RefIdle
    /\ CtrlIdle
    /\ SignerUnused
    /\ SetUnused
    /\ WriteUnused
    /\ CmdUnused
    /\ PushUnused
    /\ SmUnused
    /\ PlUnused

\* got, err := BuildReference(registry, digest)
CallBuildReference ==
    /\ refCalled = "none"
    /\ refOut' = BuildReference(refRegistry, refDigest)
    /\ refCalled' = "BuildReference"
    /\ UNCHANGED <<refRegistry, refDigest, refD32, refStr>>
    /\ UNCHANGED exceptRef

\* digest := Digest32ToSha256String(d)
CallDigest32ToSha256String ==
    /\ refCalled = "none"
    /\ refStr' = Digest32ToSha256String(refD32)
    /\ refCalled' = "Digest32ToSha256String"
    /\ UNCHANGED <<refRegistry, refDigest, refD32, refOut>>
    /\ UNCHANGED exceptRef

\* digest := Digest32ToSha256String(d); reference, err := BuildReference(registry, digest)
CallResolveReference ==
    /\ refCalled = "none"
    /\ refStr' = Digest32ToSha256String(refD32)
    /\ refOut' = BuildReference(refRegistry, refStr')
    /\ refCalled' = "ResolveReference"
    /\ UNCHANGED <<refRegistry, refDigest, refD32>>
    /\ UNCHANGED exceptRef

NextRef ==
    \/ CallBuildReference
    \/ CallDigest32ToSha256String
    \/ CallResolveReference

SpecRef == InitRef /\ [][NextRef]_vars

(***************************************************************************)
(* Controller.Execute, one action per call of a collaborator               *)
(***************************************************************************)
Init ==
    /\ RefUnused
    /\ CtrlIdle
    /\ SignerUnused
    /\ SetUnused
    /\ WriteUnused
    /\ CmdUnused
    /\ PushUnused
    /\ SmUnused
    /\ PlUnused

\* Execute is called with cfg
ExecuteBegin ==
    /\ pc \in {"idle", "done"}
    /\ cfg' \in RunConfigs
    /\ pc' = "fetch"
    /\ rel' = ZeroRelease
    /\ relID' = 0
    /\ reference' = <<>>
    /\ execErr' = NilError
    /\ rmCalls' = <<>>
    /\ pullCalls' = <<>>
    /\ runCalls' = <<>>
    /\ UNCHANGED exceptCtrl

\* 1) Fetch release, cfg.ReleaseID == nil: GetLatestRelease and its error handling
ExecuteFetchLatest ==
    /\ pc = "fetch"
    /\ cfg.ReleaseID.isNil
    /\ \E answer \in
            {[rel |-> r, id |-> i, err |-> NilError] : r \in LedgerReleases, i \in LatestIDs}
            \cup {[rel |-> ZeroRelease, id |-> 0, err |-> e] : e \in LedgerErrors} :
          /\ rmCalls' = Append(rmCalls,
                 [op |-> "GetLatestRelease", avs |-> cfg.AVS,
                  opSetID |-> cfg.OperatorSetID, releaseID |-> 0, err |-> answer.err])
          /\ rel' = answer.rel
          /\ relID' = answer.id
          /\ IF answer.err.isErr
             THEN /\ execErr' = LatestReleaseError(cfg, answer.err)
                  /\ pc' = "done"
             ELSE /\ execErr' = execErr
                  /\ pc' = "resolve"
    /\ UNCHANGED <<cfg, reference, pullCalls, runCalls>>
    /\ UNCHANGED exceptCtrl

\* 1) Fetch release, cfg.ReleaseID != nil: GetRelease and its error handling
ExecuteFetchSpecific ==
    /\ pc = "fetch"
    /\ ~cfg.ReleaseID.isNil
    /\ \E answer \in
            {[rel |-> r, err |-> NilError] : r \in LedgerReleases}
            \cup {[rel |-> ZeroRelease, err |-> e] : e \in LedgerErrors} :
          /\ rmCalls' = Append(rmCalls,
                 [op |-> "GetRelease", avs |-> cfg.AVS,
                  opSetID |-> cfg.OperatorSetID, releaseID |-> cfg.ReleaseID.val,
                  err |-> answer.err])
          /\ rel' = answer.rel
          /\ IF answer.err.isErr
             THEN /\ execErr' = SpecificReleaseError(cfg, answer.err)
                  /\ relID' = relID
                  /\ pc' = "done"
             ELSE /\ execErr' = execErr
                  /\ relID' = cfg.ReleaseID.val
                  /\ pc' = "resolve"
    /\ UNCHANGED <<cfg, reference, pullCalls, runCalls>>
    /\ UNCHANGED exceptCtrl

\* Faulty variant of ExecuteResolve: a release without artifacts is an error
\* only when it has no upgrade deadline, otherwise there is nothing to run
ExecuteResolve_DeadlineDependent ==
    /\ pc = "resolve"
    /\ IF Len(rel.Artifacts) = 0
       THEN /\ execErr' = IF rel.UpgradeByTime = 0 THEN ErrNoArtifactsInRelease ELSE NilError
            /\ reference' = reference
            /\ pc' = "done"
       ELSE LET art == SelectArtifact(rel)
                digest == Digest32ToSha256String(art.Digest32)
                built == BuildReference(art.Registry, digest)
            IN  IF built.err.isErr
                THEN /\ execErr' = Wrapf(<<"f","a","i","l","e","d"," ","t","o"," ","b","u","i","l","d"," ","r","e","f","e","r","e","n","c","e",":"," ">>, built.err)
                     /\ reference' = built.ref
                     /\ pc' = "done"
                ELSE /\ execErr' = execErr
                     /\ reference' = built.ref
                     /\ pc' = "pull"
    /\ UNCHANGED <<cfg, rel, relID, rmCalls, pullCalls, runCalls>>
    /\ UNCHANGED exceptCtrl

\* Validate release has artifacts, take the first artifact, build the reference
ExecuteResolve ==
    /\ pc = "resolve"
    /\ IF Len(rel.Artifacts) = 0
       THEN /\ execErr' = ErrNoArtifactsInRelease
            /\ reference' = reference
            /\ pc' = "done"
       ELSE LET art == SelectArtifact(rel)
                digest == Digest32ToSha256String(art.Digest32)
                built == BuildReference(art.Registry, digest)
            IN  IF built.err.isErr
                THEN /\ execErr' = Wrapf(<<"f","a","i","l","e","d"," ","t","o"," ","b","u","i","l","d"," ","r","e","f","e","r","e","n","c","e",":"," ">>, built.err)
                     /\ reference' = built.ref
                     /\ pc' = "done"
                ELSE /\ execErr' = execErr
                     /\ reference' = built.ref
                     /\ pc' = "pull"
    /\ UNCHANGED <<cfg, rel, relID, rmCalls, pullCalls, runCalls>>
    /\ UNCHANGED exceptCtrl

\* Faulty variant of ExecutePull: the error of Pull is dropped
ExecutePull_ErrorDropped ==
    /\ pc = "pull"
    /\ \E err \in PullResults :
          /\ pullCalls' = Append(pullCalls, [ref |-> reference, err |-> err])
          /\ execErr' = execErr
          /\ pc' = "run"
    /\ UNCHANGED <<cfg, rel, relID, reference, rmCalls, runCalls>>
    /\ UNCHANGED exceptCtrl

\* Faulty variant of ExecutePull: a failed pull is tried a second time
ExecutePull_Retried ==
    /\ pc = "pull"
    /\ \E err \in PullResults :
          /\ pullCalls' = Append(pullCalls, [ref |-> reference, err |-> err])
          /\ IF err.isErr
             THEN IF Len(pullCalls) = 0
                  THEN /\ execErr' = execErr
                       /\ pc' = "pull"
                  ELSE /\ execErr' = Wrapf(<<"f","a","i","l","e","d"," ","t","o"," ","p","u","l","l"," ","i","m","a","g","e",":"," ">>, err)
                       /\ pc' = "done"
             ELSE /\ execErr' = execErr
                  /\ pc' = "run"
    /\ UNCHANGED <<cfg, rel, relID, reference, rmCalls, runCalls>>
    /\ UNCHANGED exceptCtrl

\* 2) Docker pull
ExecutePull ==
    /\ pc = "pull"
    /\ \E err \in PullResults :
          /\ pullCalls' = Append(pullCalls, [ref |-> reference, err |-> err])
          /\ IF err.isErr
             THEN /\ execErr' = Wrapf(<<"f","a","i","l","e","d"," ","t","o"," ","p","u","l","l"," ","i","m","a","g","e",":"," ">>, err)
                  /\ pc' = "done"
             ELSE /\ execErr' = execErr
                  /\ pc' = "run"
    /\ UNCHANGED <<cfg, rel, relID, reference, rmCalls, runCalls>>
    /\ UNCHANGED exceptCtrl

\* 3) Docker run with AVS context
ExecuteRun ==
    /\ pc = "run"
    /\ LET env == MergeEnv(InjectedEnv(cfg, relID, rel), cfg.Env)
           runOpts == RunOptions(cfg, env)
       IN  \E err \in RunResults :
              /\ runCalls' = Append(runCalls,
                     [ref |-> reference, opts |-> runOpts, err |-> err])
              /\ execErr' = IF err.isErr
                            THEN Wrapf(<<"f","a","i","l","e","d"," ","t","o"," ","r","u","n"," ","c","o","n","t","a","i","n","e","r",":"," ">>, err)
                            ELSE NilError
              /\ pc' = "done"
    /\ UNCHANGED <<cfg, rel, relID, reference, rmCalls, pullCalls>>
    /\ UNCHANGED exceptCtrl

Next ==
    \/ ExecuteBegin
    \/ ExecuteFetchLatest
    \/ ExecuteFetchSpecific
    \/ ExecuteResolve
    \/ ExecutePull
    \/ ExecuteRun

Spec == Init /\ [][Next]_vars

(***************************************************************************)
(* The signer factory applied to a context                                 *)
(***************************************************************************)
InitSigner ==
    /\ sigCtx \in SignerContexts
    /\ SignerIdle
    /\ RefUnused
    /\ CtrlIdle
    /\ SetUnused
    /\ WriteUnused
    /\ CmdUnused
    /\ PushUnused
    /\ SmUnused
    /\ PlUnused

\* sig, err := signer.FromContext(ctx)
CallFromContext ==
    /\ sigCalled = "none"
    /\ LET r == FromContext(sigCtx)
       IN  /\ sigOut' = SignerResult(r.signer, r.err)
           /\ sigReads' = r.reads
    /\ sigCalled' = "FromContext"
    /\ UNCHANGED <<sigCtx, sigPair>>
    /\ UNCHANGED exceptSig

\* signer1, err := NewECDSASignerFromHex(key)
\* signer2, err := NewECDSASignerFromHex("0x" + key)
CallNewECDSASignerFromHex ==
    /\ sigCalled = "none"
    /\ \E k \in BareHexKeySamples :
         sigPair' = [hexKey |-> k,
                     bare |-> NewECDSASignerFromHex(k),
                     prefixed |-> NewECDSASignerFromHex(<<"0", "x">> \o k)]
    /\ sigCalled' = "NewECDSASignerFromHex"
    /\ UNCHANGED <<sigCtx, sigOut, sigReads>>
    /\ UNCHANGED exceptSig

NextSigner ==
    \/ CallFromContext
    \/ CallNewECDSASignerFromHex

SpecSigner == InitSigner /\ [][NextSigner]_vars

(***************************************************************************)
(* The command `context set` run again and again on the config file        *)
(***************************************************************************)
InitSet ==
    /\ disk \in InitialDiskFiles
    /\ SetIdle
    /\ RefUnused
    /\ CtrlIdle
    /\ SignerUnused
    /\ WriteUnused
    /\ CmdUnused
    /\ PushUnused
    /\ SmUnused
    /\ PlUnused

\* Faulty variant of ContextSet: the config is also saved when a flag is refused
ContextSet_SavedOnError ==
    \E f \in SetFlagSamples, outcome \in SaveOutcomes :
        LET r == ContextSetAction(disk, f)
            saved == SaveConfig(disk, r.cfg, outcome)
        IN  /\ diskBefore' = disk
            /\ setFlags' = f
            /\ setCalled' = TRUE
            /\ IF r.save
               THEN /\ disk' = saved.file
                    /\ setErr' = IF saved.err.isErr
                                 THEN Wrapf(<<"f","a","i","l","e","d"," ","t","o"," ","s","a","v","e"," ","c","o","n","f","i","g",":"," ">>, saved.err)
                                 ELSE NilError
               ELSE /\ disk' = IF disk.status = "valid"
                                THEN DiskFile("valid", r.cfg) ELSE disk
                    /\ setErr' = r.err
            /\ UNCHANGED exceptSet

\* flickr context set <flags>: contextSetAction from LoadConfig to its return
ContextSet ==
    \E f \in SetFlagSamples, outcome \in SaveOutcomes :
        LET r == ContextSetAction(disk, f)
            saved == SaveConfig(disk, r.cfg, outcome)
        IN  /\ diskBefore' = disk
            /\ setFlags' = f
            /\ setCalled' = TRUE
            /\ IF r.save
               THEN /\ disk' = saved.file
                    /\ setErr' = IF saved.err.isErr
                                 THEN Wrapf(<<"f","a","i","l","e","d"," ","t","o"," ","s","a","v","e"," ","c","o","n","f","i","g",":"," ">>, saved.err)
                                 ELSE NilError
               ELSE /\ disk' = disk
                    /\ setErr' = r.err
            /\ UNCHANGED exceptSet

NextSet ==
    \/ ContextSet

SpecSet == InitSet /\ [][NextSet]_vars

(***************************************************************************)
(* Client.PublishMetadataURI and Client.PushRelease, one action per call   *)
(* made to the transport, to the signer and by the contract binding        *)
(***************************************************************************)
InitWrite ==
    /\ wSigner \in WriteSigners
    /\ \E base \in BaseNonces : ledger = Ledger(base, <<>>, <<>>)
    /\ WriteIdle
    /\ RefUnused
    /\ CtrlIdle
    /\ SignerUnused
    /\ SetUnused
    /\ CmdUnused
    /\ PushUnused
    /\ SmUnused
    /\ PlUnused

\* the operation returns (nil, err)
WriteFail(err) ==
    /\ wErr' = err
    /\ wRet' = NilTransaction
    /\ wpc' = "returned"

\* Faulty variant of WriteBegin: the signer is not looked at
WriteBegin_SignerUnchecked ==
    /\ wpc \in {"idle", "returned"}
    /\ wCount < MaxWrites
    /\ \E op \in WriteOps :
        /\ wOp' = op
        /\ wErr' = NilError
        /\ wRet' = NilTransaction
        /\ wpc' = "ChainID"
    /\ wCount' = wCount + 1
    /\ wChainID' = 0
    /\ wNonce' = 0
    /\ wGasPrice' = 0
    /\ wTx' = NilTransaction
    /\ UNCHANGED <<wSigner, ledger, wLog>>
    /\ UNCHANGED exceptWrite

\* PublishMetadataURI or PushRelease is called: if c.signer == nil
WriteBegin ==
    /\ wpc \in {"idle", "returned"}
    /\ wCount < MaxWrites
    /\ \E op \in WriteOps :
        /\ wOp' = op
        /\ IF wSigner.typ = "nil"
           THEN WriteFail(Errorf(MsgSignerRequired(op)))
           ELSE /\ wErr' = NilError
                /\ wRet' = NilTransaction
                /\ wpc' = "ChainID"
    /\ wCount' = wCount + 1
    /\ wChainID' = 0
    /\ wNonce' = 0
    /\ wGasPrice' = 0
    /\ wTx' = NilTransaction
    /\ UNCHANGED <<wSigner, ledger, wLog>>
    /\ UNCHANGED exceptWrite

\* chainID, err := c.ethClient.ChainID(ctx)
WriteChainID ==
    /\ wpc = "ChainID"
    /\ \E a \in ChainIDAnswers :
        /\ wLog' = Append(wLog, LogEntry(wCount, "ChainID", ~a.err.isErr, a.val))
        /\ IF a.err.isErr
           THEN /\ WriteFail(Wrapf(MsgChainIDFailed, a.err))
                /\ UNCHANGED wChainID
           ELSE /\ wChainID' = a.val
                /\ wpc' = "PendingNonceAt"
                /\ UNCHANGED <<wErr, wRet>>
    /\ UNCHANGED <<wSigner, ledger, wOp, wCount, wNonce, wGasPrice, wTx>>
    /\ UNCHANGED exceptWrite

\* Faulty variant of WritePendingNonceAt: a failure is ignored
WritePendingNonceAt_ErrorIgnored ==
    /\ wpc = "PendingNonceAt"
    /\ \E failed \in BOOLEAN :
        LET nonce == IF failed THEN 0 ELSE QueryNonce(ledger, wSigner.address)
        IN  /\ wLog' = Append(wLog, LogEntry(wCount, "PendingNonceAt", ~failed, nonce))
            /\ wNonce' = nonce
            /\ wpc' = "SuggestGasPrice"
            /\ UNCHANGED <<wErr, wRet>>
    /\ UNCHANGED <<wSigner, ledger, wOp, wCount, wChainID, wGasPrice, wTx>>
    /\ UNCHANGED exceptWrite

\* nonce, err := c.ethClient.PendingNonceAt(ctx, c.signer.Address())
WritePendingNonceAt ==
    /\ wpc = "PendingNonceAt"
    /\ \E failed \in BOOLEAN :
        LET nonce == IF failed THEN 0 ELSE QueryNonce(ledger, wSigner.address)
        IN  /\ wLog' = Append(wLog, LogEntry(wCount, "PendingNonceAt", ~failed, nonce))
            /\ IF failed
               THEN /\ WriteFail(Wrapf(MsgNonceFailed, ErrTransport))
                    /\ UNCHANGED wNonce
               ELSE /\ wNonce' = nonce
                    /\ wpc' = "SuggestGasPrice"
                    /\ UNCHANGED <<wErr, wRet>>
    /\ UNCHANGED <<wSigner, ledger, wOp, wCount, wChainID, wGasPrice, wTx>>
    /\ UNCHANGED exceptWrite

\* gasPrice, err := c.ethClient.SuggestGasPrice(ctx)
WriteSuggestGasPrice ==
    /\ wpc = "SuggestGasPrice"
    /\ \E a \in GasPriceAnswers :
        /\ wLog' = Append(wLog, LogEntry(wCount, "SuggestGasPrice", ~a.err.isErr, a.val))
        /\ IF a.err.isErr
           THEN /\ WriteFail(Wrapf(MsgGasPriceFailed, a.err))
                /\ UNCHANGED wGasPrice
           ELSE /\ wGasPrice' = a.val
                /\ wpc' = "Transact"
                /\ UNCHANGED <<wErr, wRet>>
    /\ UNCHANGED <<wSigner, ledger, wOp, wCount, wChainID, wNonce, wTx>>
    /\ UNCHANGED exceptWrite

\* Faulty variant of WriteSign: the chain id of the first operation is reused
WriteSign_StaleChainID ==
    /\ wpc = "Transact"
    /\ LET opts == TransactOpts(wSigner.address, wNonce, GasLimit, wGasPrice)
           rawTx == RawTransaction(opts, wOp)
           first == CHOOSE i \in 1..Len(wLog) :
                        wLog[i].call = "ChainID" /\ wLog[i].ok
                        /\ \A j \in 1..(i - 1) : ~(wLog[j].call = "ChainID" /\ wLog[j].ok)
       IN  \E address \in SignRequestAddresses(opts) :
            LET r == SignerCallback(wSigner, wLog[first].val, address, rawTx)
                asked == Append(wLog, LogEntry(wCount, "Signer", ~r.err.isErr, address))
            IN  /\ wLog' = IF r.signs
                           THEN Append(asked, LogEntry(wCount, "SignTransaction",
                                                       ~r.err.isErr, r.tx))
                           ELSE asked
                /\ IF r.err.isErr
                   THEN /\ WriteFail(Wrapf(MsgTransactFailed(wOp), r.err))
                        /\ UNCHANGED wTx
                   ELSE /\ wTx' = r.tx
                        /\ wpc' = "SendTransaction"
                        /\ UNCHANGED <<wErr, wRet>>
    /\ UNCHANGED <<wSigner, ledger, wOp, wCount, wChainID, wNonce, wGasPrice>>
    /\ UNCHANGED exceptWrite

\* tx, err := c.rmContract.PublishMetadataURI(opts, ...) or PublishRelease(opts, ...),
\* first part: the binding builds the transaction from opts and calls
\* opts.Signer (it asks for opts.From; any address is allowed for here)
WriteSign ==
    /\ wpc = "Transact"
    /\ LET opts == TransactOpts(wSigner.address, wNonce, GasLimit, wGasPrice)
           rawTx == RawTransaction(opts, wOp)
       IN  \E address \in SignRequestAddresses(opts) :
            LET r == SignerCallback(wSigner, wChainID, address, rawTx)
                asked == Append(wLog, LogEntry(wCount, "Signer", ~r.err.isErr, address))
            IN  /\ wLog' = IF r.signs
                           THEN Append(asked, LogEntry(wCount, "SignTransaction",
                                                       ~r.err.isErr, r.tx))
                           ELSE asked
                /\ IF r.err.isErr
                   THEN /\ WriteFail(Wrapf(MsgTransactFailed(wOp), r.err))
                        /\ UNCHANGED wTx
                   ELSE /\ wTx' = r.tx
                        /\ wpc' = "SendTransaction"
                        /\ UNCHANGED <<wErr, wRet>>
    /\ UNCHANGED <<wSigner, ledger, wOp, wCount, wChainID, wNonce, wGasPrice>>
    /\ UNCHANGED exceptWrite

\* second part of the contract call: the binding submits the signed
\* transaction; the operation returns it, or the wrapped failure
WriteSend ==
    /\ wpc = "SendTransaction"
    /\ \E accepted \in BOOLEAN :
        /\ wLog' = Append(wLog, LogEntry(wCount, "SendTransaction", accepted, wTx))
        /\ IF accepted
           THEN /\ ledger' = [ledger EXCEPT !.pending = Append(@, wTx)]
                /\ wRet' = wTx
                /\ wErr' = NilError
                /\ wpc' = "returned"
           ELSE /\ WriteFail(Wrapf(MsgTransactFailed(wOp), ErrTransport))
                /\ UNCHANGED ledger
    /\ UNCHANGED <<wSigner, wOp, wCount, wChainID, wNonce, wGasPrice, wTx>>
    /\ UNCHANGED exceptWrite

\* the ledger mines the oldest pending transaction
Mine ==
    /\ ledger.pending # <<>>
    /\ ledger' = [ledger EXCEPT !.mined = Append(@, Head(ledger.pending)),
                                !.pending = Tail(@)]
    /\ UNCHANGED <<wSigner, wpc, wOp, wCount, wChainID, wNonce, wGasPrice, wTx, wRet,
                   wErr, wLog>>
    /\ UNCHANGED exceptWrite

NextWrite ==
    \/ WriteBegin
    \/ WriteChainID
    \/ WritePendingNonceAt
    \/ WriteSuggestGasPrice
    \/ WriteSign
    \/ WriteSend
    \/ Mine

SpecWrite == InitWrite /\ [][NextWrite]_vars

(***************************************************************************)
(* The commands pull, run, push, metadata set and metadata get: the        *)
(* connections they dial, one action per step that dials, closes or        *)
(* returns                                                                 *)
(***************************************************************************)
InitCmd ==
    /\ command \in Commands
    /\ cProvided \in ProvidedAddresses
    /\ CmdIdle
    /\ RefUnused
    /\ CtrlIdle
    /\ SignerUnused
    /\ SetUnused
    /\ WriteUnused
    /\ PushUnused
    /\ SmUnused
    /\ PlUnused

\* the action function returns err
CmdReturn(err) ==
    /\ cErr' = err
    /\ cpc' = "returned"

\* defer client.Close() / defer rmClient.Close(): the connection dialed last
CloseLast(cs) == [cs EXCEPT ![Len(cs)] = Connection(cs[Len(cs)].by, FALSE)]

\* rmAddr, err := eth.GetReleaseManagerAddress(rpcURL, releaseManager), up to
\* the call of GetChainID
CmdGetReleaseManagerAddress ==
    /\ cpc = "start"
    /\ IF ProvidedAddressUsed(cProvided)
       THEN /\ cAddr' = HexToAddress(cProvided)
            /\ cpc' = "prepare"
       ELSE /\ cpc' = "GetChainID"
            /\ UNCHANGED cAddr
    /\ UNCHANGED <<command, cProvided, cErr, conns>>
    /\ UNCHANGED exceptCmd

\* GetChainID: client, err := ethclient.Dial(rpcURL); defer client.Close()
GetChainIDDial ==
    /\ cpc = "GetChainID"
    /\ \E dialed \in BOOLEAN :
        IF dialed
        THEN /\ conns' = Append(conns, Connection("GetChainID", TRUE))
             /\ cpc' = "GetChainIDQuery"
             /\ UNCHANGED cErr
        ELSE /\ CmdReturn(Wrapf(<<"f","a","i","l","e","d"," ","t","o"," ","g","e","t"," ","R","e","l","e","a","s","e","M","a","n","a","g","e","r"," ","a","d","d","r","e","s","s",":"," ","f","a","i","l","e","d"," ","t","o"," ","g","e","t"," ","c","h","a","i","n"," ","I","D",":"," ","f","a","i","l","e","d"," ","t","o"," ","c","o","n","n","e","c","t"," ","t","o"," ","E","t","h","e","r","e","u","m"," ","c","l","i","e","n","t",":"," ">>,
                                ErrTransport))
             /\ UNCHANGED conns
    /\ UNCHANGED <<command, cProvided, cAddr>>
    /\ UNCHANGED exceptCmd

\* GetChainID: chainID, err := client.ChainID(...), the deferred Close, and the
\* rest of GetReleaseManagerAddress
GetChainIDQuery ==
    /\ cpc = "GetChainIDQuery"
    /\ conns' = CloseLast(conns)
    /\ \E a \in DefaultsChainIDAnswers :
        IF a.err.isErr
        THEN /\ CmdReturn(Wrapf(<<"f","a","i","l","e","d"," ","t","o"," ","g","e","t"," ","R","e","l","e","a","s","e","M","a","n","a","g","e","r"," ","a","d","d","r","e","s","s",":"," ","f","a","i","l","e","d"," ","t","o"," ","g","e","t"," ","c","h","a","i","n"," ","I","D",":"," ","f","a","i","l","e","d"," ","t","o"," ","g","e","t"," ","c","h","a","i","n"," ","I","D",":"," ">>,
                                a.err))
             /\ UNCHANGED cAddr
        ELSE LET r == DefaultReleaseManagerAddress(a.val)
             IN  IF r.err.isErr
                 THEN /\ CmdReturn(Wrapf(<<"f","a","i","l","e","d"," ","t","o"," ","g","e","t"," ","R","e","l","e","a","s","e","M","a","n","a","g","e","r"," ","a","d","d","r","e","s","s",":"," ">>, r.err))
                      /\ UNCHANGED cAddr
                 ELSE /\ cAddr' = r.addr
                      /\ cpc' = "prepare"
                      /\ UNCHANGED cErr
    /\ UNCHANGED <<command, cProvided>>
    /\ UNCHANGED exceptCmd

\* the steps between the address resolution and the construction of the
\* client: the signer, the images, --uri, --env
CmdPrepare ==
    /\ cpc = "prepare"
    /\ \E failed \in BOOLEAN :
        /\ failed => PrepareFailure(command).isErr
        /\ IF failed
           THEN CmdReturn(PrepareFailure(command))
           ELSE /\ cpc' = "NewClient"
                /\ UNCHANGED cErr
    /\ UNCHANGED <<command, cProvided, cAddr, conns>>
    /\ UNCHANGED exceptCmd

\* NewClient: ethClient, err := ethclient.Dial(rpcURL)
NewClientDial ==
    /\ cpc = "NewClient"
    /\ \E dialed \in BOOLEAN :
        IF dialed
        THEN /\ conns' = Append(conns, Connection("NewClient", TRUE))
             /\ cpc' = "NewReleaseManager"
             /\ UNCHANGED cErr
        ELSE /\ CmdReturn(Wrapf(<<"f","a","i","l","e","d"," ","t","o"," ","c","r","e","a","t","e"," ","E","t","h","e","r","e","u","m"," ","c","l","i","e","n","t",":"," ","f","a","i","l","e","d"," ","t","o"," ","c","o","n","n","e","c","t"," ","t","o"," ","E","t","h","e","r","e","u","m"," ","c","l","i","e","n","t",":"," ">>,
                                ErrTransport))
             /\ UNCHANGED conns
    /\ UNCHANGED <<command, cProvided, cAddr>>
    /\ UNCHANGED exceptCmd

\* NewClient: rmContract, err := ReleaseManager.NewReleaseManager(contractAddr,
\* ethClient); on failure NewClient returns nil and the command returns
NewClientBind ==
    /\ cpc = "NewReleaseManager"
    /\ \E bound \in BOOLEAN :
        IF bound
        THEN /\ cpc' = "body"
             /\ UNCHANGED cErr
        ELSE CmdReturn(Errorf(<<"f","a","i","l","e","d"," ","t","o"," ","c","r","e","a","t","e"," ","E","t","h","e","r","e","u","m"," ","c","l","i","e","n","t",":"," ","f","a","i","l","e","d"," ","t","o"," ","i","n","s","t","a","n","t","i","a","t","e"," ","R","e","l","e","a","s","e","M","a","n","a","g","e","r"," ","c","o","n","t","r","a","c","t",":"," ","i","n","v","a","l","i","d"," ","A","B","I">>))
    /\ UNCHANGED <<command, cProvided, cAddr, conns>>
    /\ UNCHANGED exceptCmd

\* defer rmClient.Close() and the rest of the command: it returns nil or the
\* failure of a ledger call, and the deferred Close runs
CmdBody ==
    /\ cpc = "body"
    /\ \E failed \in BOOLEAN :
        CmdReturn(IF failed THEN BodyFailure(command) ELSE NilError)
    /\ conns' = CloseLast(conns)
    /\ UNCHANGED <<command, cProvided, cAddr>>
    /\ UNCHANGED exceptCmd

NextCmd ==
    \/ CmdGetReleaseManagerAddress
    \/ GetChainIDDial
    \/ GetChainIDQuery
    \/ CmdPrepare
    \/ NewClientDial
    \/ NewClientBind
    \/ CmdBody

SpecCmd == InitCmd /\ [][NextCmd]_vars

(***************************************************************************)
(* The command push, one action per collaborator called                    *)
(***************************************************************************)
InitPush ==
    /\ pFlags \in [avs : AvsFlags, rpcURL : RpcURLFlags, images : 0..MaxImages,
                   skipDockerPush : BOOLEAN, registry : RegistryFlags]
    /\ PushIdle
    /\ RefUnused
    /\ CtrlIdle
    /\ SignerUnused
    /\ SetUnused
    /\ WriteUnused
    /\ CmdUnused
    /\ SmUnused
    /\ PlUnused

\* pushAction returns err
PushReturn(err) ==
    /\ pErr' = err
    /\ ppc' = "returned"

\* one call of a collaborator: its name, its argument and its answer
PushCall(call, arg, ok, val) == [call |-> call, arg |-> arg, ok |-> ok, val |-> val]

\* pushAction up to the loop over the images: the required flags, the
\* ReleaseManager address, the signer
PushConfigure ==
    /\ ppc = "start"
    /\ IF pFlags.avs = <<>>
       THEN PushReturn(Errorf(<<"-","-","a","v","s"," ","i","s"," ","r","e","q","u","i","r","e","d"," ","(","o","r"," ","s","e","t"," ","i","n"," ","c","o","n","t","e","x","t"," ","w","i","t","h"," ","'","f","l","i","c","k","r"," ","c","o","n","t","e","x","t"," ","s","e","t"," ","-","-","a","v","s","-","a","d","d","r","e","s","s","'",")">>))
       ELSE IF pFlags.rpcURL = <<>>
       THEN PushReturn(Errorf(<<"-","-","r","p","c","-","u","r","l"," ","i","s"," ","r","e","q","u","i","r","e","d"," ","(","o","r"," ","s","e","t"," ","i","n"," ","c","o","n","t","e","x","t"," ","w","i","t","h"," ","'","f","l","i","c","k","r"," ","c","o","n","t","e","x","t"," ","s","e","t"," ","-","-","r","p","c","-","u","r","l","'",")">>))
       ELSE \E outcome \in {"address", "signer", "ok"} :
               CASE outcome = "address" ->
                       PushReturn(Wrapf(<<"f","a","i","l","e","d"," ","t","o"," ","g","e","t"," ","R","e","l","e","a","s","e","M","a","n","a","g","e","r"," ","a","d","d","r","e","s","s",":"," ">>,
                                        DefaultReleaseManagerAddress(17000).err))
                 [] outcome = "signer" ->
                       PushReturn(Wrapf(<<"n","o"," ","s","i","g","n","e","r"," ","c","o","n","f","i","g","u","r","e","d",":"," ">>, ErrNoSignerConfigured))
                 [] outcome = "ok" ->
                       IF pFlags.images = 0
                       THEN PushReturn(Errorf(<<"a","t"," ","l","e","a","s","t"," ","o","n","e"," ","-","-","i","m","a","g","e"," ","i","s"," ","r","e","q","u","i","r","e","d">>))
                       ELSE /\ ppc' = "image"
                            /\ UNCHANGED pErr
    /\ UNCHANGED <<pFlags, pIdx, pArtifacts, pReported, pCalls, pReleases>>
    /\ UNCHANGED exceptPush

\* one turn of the loop over the images: docker push unless skipped,
\* getImageDigest, the registry override, the artifact
PushProcessImage ==
    /\ ppc = "image"
    /\ LET image == ImageName(pIdx)
       IN  \E pushed \in IF pFlags.skipDockerPush THEN {TRUE} ELSE BOOLEAN,
              inspected \in [ok : {TRUE}, out : InspectOutputs]
                            \cup {[ok |-> FALSE, out |-> <<>>]} :
            LET afterPush == IF pFlags.skipDockerPush
                             THEN pCalls
                             ELSE Append(pCalls, PushCall("docker push", image, pushed, <<>>))
                afterInspect == Append(afterPush,
                                    PushCall("docker inspect", image, inspected.ok,
                                             inspected.out))
                r == ParseRepoDigests(inspected.out)
                registry == IF pFlags.registry # <<>> THEN pFlags.registry ELSE r.registry
            IN  IF ~pushed
                THEN /\ pCalls' = afterPush
                     /\ PushReturn(Errorf(<<"f","a","i","l","e","d"," ","t","o"," ","p","u","s","h"," ","i","m","a","g","e"," ">> \o image \o <<":"," ">>
                                          \o ErrExitStatus.msg \o <<"\n">>))
                     /\ UNCHANGED <<pIdx, pArtifacts, pReported>>
                ELSE IF ~inspected.ok
                THEN /\ pCalls' = afterInspect
                     /\ PushReturn(Wrapf(<<"f","a","i","l","e","d"," ","t","o"," ","g","e","t"," ","d","i","g","e","s","t"," ","f","o","r"," ">> \o image \o <<":"," ">>,
                                         Wrapf(<<"f","a","i","l","e","d"," ","t","o"," ","i","n","s","p","e","c","t"," ","i","m","a","g","e",":"," ">>, ErrExitStatus)))
                     /\ UNCHANGED <<pIdx, pArtifacts, pReported>>
                ELSE IF r.panics
                THEN /\ pCalls' = afterInspect
                     /\ ppc' = "panicked"
                     /\ UNCHANGED <<pIdx, pArtifacts, pReported, pErr>>
                ELSE IF r.err.isErr
                THEN /\ pCalls' = afterInspect
                     /\ PushReturn(Wrapf(<<"f","a","i","l","e","d"," ","t","o"," ","g","e","t"," ","d","i","g","e","s","t"," ","f","o","r"," ">> \o image \o <<":"," ">>,
                                         r.err))
                     /\ UNCHANGED <<pIdx, pArtifacts, pReported>>
                ELSE /\ pCalls' = afterInspect
                     /\ pArtifacts' = Append(pArtifacts, Artifact(registry, r.digest))
                     /\ pReported' = Append(pReported, ReportedReference(inspected.out))
                     /\ pIdx' = pIdx + 1
                     /\ ppc' = IF pIdx = pFlags.images THEN "NewClient" ELSE "image"
                     /\ UNCHANGED pErr
    /\ UNCHANGED <<pFlags, pReleases>>
    /\ UNCHANGED exceptPush

\* rmClient, err := eth.NewClientWithSigner(rpcURL, rmAddr, sig)
PushNewClient ==
    /\ ppc = "NewClient"
    /\ \E ok \in BOOLEAN :
        /\ pCalls' = Append(pCalls, PushCall("NewClientWithSigner", pFlags.rpcURL, ok, <<>>))
        /\ IF ok
           THEN /\ ppc' = "GetMetadataURI"
                /\ UNCHANGED pErr
           ELSE PushReturn(Wrapf(<<"f","a","i","l","e","d"," ","t","o"," ","c","r","e","a","t","e"," ","E","t","h","e","r","e","u","m"," ","c","l","i","e","n","t",":"," ","f","a","i","l","e","d"," ","t","o"," ","c","o","n","n","e","c","t"," ","t","o"," ","E","t","h","e","r","e","u","m"," ","c","l","i","e","n","t",":"," ">>,
                                 ErrTransport))
    /\ UNCHANGED <<pFlags, pIdx, pArtifacts, pReported, pReleases>>
    /\ UNCHANGED exceptPush

\* Faulty variant of PushGetMetadataURI: an unset metadata URI is accepted
PushGetMetadataURI_EmptyAccepted ==
    /\ ppc = "GetMetadataURI"
    /\ \E a \in MetadataURIAnswers :
        /\ pCalls' = Append(pCalls, PushCall("GetMetadataURI", HexToAddress(pFlags.avs),
                                             ~a.err.isErr, a.val))
        /\ IF a.err.isErr
           THEN PushReturn(Wrapf(<<"f","a","i","l","e","d"," ","t","o"," ","c","h","e","c","k"," ","m","e","t","a","d","a","t","a"," ","U","R","I",":"," ">>, a.err))
           ELSE /\ ppc' = "PushRelease"
                /\ UNCHANGED pErr
    /\ UNCHANGED <<pFlags, pIdx, pArtifacts, pReported, pReleases>>
    /\ UNCHANGED exceptPush

\* metadataURI, err := rmClient.GetMetadataURI(ctx, avs, operatorSetID) and the
\* check of metadataURI
PushGetMetadataURI ==
    /\ ppc = "GetMetadataURI"
    /\ \E a \in MetadataURIAnswers :
        /\ pCalls' = Append(pCalls, PushCall("GetMetadataURI", HexToAddress(pFlags.avs),
                                             ~a.err.isErr, a.val))
        /\ IF a.err.isErr
           THEN PushReturn(Wrapf(<<"f","a","i","l","e","d"," ","t","o"," ","c","h","e","c","k"," ","m","e","t","a","d","a","t","a"," ","U","R","I",":"," ">>, a.err))
           ELSE IF a.val = <<>>
           THEN PushReturn(Errorf(MsgNoMetadataURI(HexToAddress(pFlags.avs), 0)))
           ELSE /\ ppc' = "PushRelease"
                /\ UNCHANGED pErr
    /\ UNCHANGED <<pFlags, pIdx, pArtifacts, pReported, pReleases>>
    /\ UNCHANGED exceptPush

\* tx, err := rmClient.PushRelease(ctx, avs, operatorSetID, artifacts,
\* upgradeByTime, gasLimit), and the return of pushAction
PushPushRelease ==
    /\ ppc = "PushRelease"
    /\ \E ok \in BOOLEAN :
        LET release == Release(pArtifacts, DefaultUpgradeByTime)
        IN  /\ pCalls' = Append(pCalls, PushCall("PushRelease", release, ok, <<>>))
            /\ IF ok
               THEN /\ pReleases' = Append(pReleases, release)
                    /\ PushReturn(NilError)
               ELSE /\ PushReturn(Wrapf(<<"f","a","i","l","e","d"," ","t","o"," ","p","u","s","h"," ","r","e","l","e","a","s","e",":"," ">>,
                                        Wrapf(MsgTransactFailed("PushRelease"), ErrTransport)))
                    /\ UNCHANGED pReleases
    /\ UNCHANGED <<pFlags, pIdx, pArtifacts, pReported>>
    /\ UNCHANGED exceptPush

NextPush ==
    \/ PushConfigure
    \/ PushProcessImage
    \/ PushNewClient
    \/ PushGetMetadataURI
    \/ PushPushRelease

SpecPush == InitPush /\ [][NextPush]_vars

(***************************************************************************)
(* SignMessage applied to a signer and a message                           *)
(***************************************************************************)
InitSm ==
    /\ smSigner \in MessageSigners
    /\ smMsg \in MessageSamples
    /\ SmIdle
    /\ RefUnused
    /\ CtrlIdle
    /\ SignerUnused
    /\ SetUnused
    /\ WriteUnused
    /\ CmdUnused
    /\ PushUnused
    /\ PlUnused

\* signature, err := sig.SignMessage(message)
CallSignMessage ==
    /\ ~smCalled
    /\ \E raw \in SignAnswers :
        /\ smRaw' = raw
        /\ smOut' = SignMessage(smSigner, smMsg, raw)
    /\ smCalled' = TRUE
    /\ UNCHANGED <<smSigner, smMsg>>
    /\ UNCHANGED exceptSm

NextSm ==
    \/ CallSignMessage

SpecSm == InitSm /\ [][NextSm]_vars

(***************************************************************************)
(* The command pull from its first read of the ledger, one action per call *)
(* of the ledger client or of docker                                       *)
(***************************************************************************)
InitPull ==
    /\ plFlags \in PullFlags
    /\ plLedger \in PullLedgers
    /\ PlIdle
    /\ RefUnused
    /\ CtrlIdle
    /\ SignerUnused
    /\ SetUnused
    /\ WriteUnused
    /\ CmdUnused
    /\ PushUnused
    /\ SmUnused

\* pullAction returns err
PullReturn(err) ==
    /\ plErr' = err
    /\ plpc' = "returned"

\* Faulty variant of PullGetTotalReleases: the requested id is not compared
\* with the total
PullGetTotalReleases_Unvalidated ==
    /\ plpc = "GetTotalReleases"
    /\ \E a \in TotalReleasesAnswers(plLedger) :
        /\ plCalls' = Append(plCalls, PullCall("GetTotalReleases", <<>>, ~a.err.isErr))
        /\ plTotal' = a.val
        /\ IF a.err.isErr
           THEN /\ PullReturn(Wrapf(<<"f","a","i","l","e","d"," ","t","o"," ","c","h","e","c","k"," ","r","e","l","e","a","s","e","s",":"," ">>, a.err))
                /\ UNCHANGED plReleaseID
           ELSE IF plFlags.releaseIdIsSet
           THEN /\ plReleaseID' = plFlags.releaseId
                /\ plpc' = "GetRelease"
                /\ UNCHANGED plErr
           ELSE IF a.val = 0
           THEN /\ PullReturn(Errorf(MsgPullNoReleasesFound))
                /\ UNCHANGED plReleaseID
           ELSE /\ plpc' = "GetLatestRelease"
                /\ UNCHANGED <<plReleaseID, plErr>>
    /\ UNCHANGED <<plFlags, plLedger, plRelease, plToPull, plIdx, plPulled>>
    /\ UNCHANGED exceptPl

\* total, err := rmClient.GetTotalReleases(ctx, avs, operatorSetID), the check
\* of the total and, with --release-id, of the requested id
PullGetTotalReleases ==
    /\ plpc = "GetTotalReleases"
    /\ \E a \in TotalReleasesAnswers(plLedger) :
        /\ plCalls' = Append(plCalls, PullCall("GetTotalReleases", <<>>, ~a.err.isErr))
        /\ plTotal' = a.val
        /\ IF a.err.isErr
           THEN /\ PullReturn(Wrapf(<<"f","a","i","l","e","d"," ","t","o"," ","c","h","e","c","k"," ","r","e","l","e","a","s","e","s",":"," ">>, a.err))
                /\ UNCHANGED plReleaseID
           ELSE IF a.val = 0
           THEN /\ PullReturn(Errorf(MsgPullNoReleasesFound))
                /\ UNCHANGED plReleaseID
           ELSE IF plFlags.releaseIdIsSet
           THEN /\ plReleaseID' = plFlags.releaseId
                /\ IF plFlags.releaseId >= a.val
                   THEN PullReturn(Errorf(MsgReleaseDoesNotExist(plFlags.releaseId, a.val)))
                   ELSE /\ plpc' = "GetRelease"
                        /\ UNCHANGED plErr
           ELSE /\ plpc' = "GetLatestRelease"
                /\ UNCHANGED <<plReleaseID, plErr>>
    /\ UNCHANGED <<plFlags, plLedger, plRelease, plToPull, plIdx, plPulled>>
    /\ UNCHANGED exceptPl

\* the release is fetched: if len(release.Artifacts) == 0, and artifactsToPull
PullSelect(release, releaseID) ==
    /\ plRelease' = release
    /\ IF Len(release.Artifacts) = 0
       THEN /\ PullReturn(Errorf(MsgNoArtifactsInRelease(releaseID)))
            /\ UNCHANGED plToPull
       ELSE /\ plToPull' = ArtifactsToPull(plFlags.all, release.Artifacts)
            /\ plpc' = "loop"
            /\ UNCHANGED plErr

\* release, err = rmClient.GetRelease(ctx, avs, operatorSetID, releaseID)
PullGetRelease ==
    /\ plpc = "GetRelease"
    /\ \E a \in GetReleaseAnswers(plLedger, plReleaseID) :
        /\ plCalls' = Append(plCalls, PullCall("GetRelease", plReleaseID, ~a.err.isErr))
        /\ IF a.err.isErr
           THEN /\ PullReturn(Wrapf(<<"f","a","i","l","e","d"," ","t","o"," ","g","e","t"," ","r","e","l","e","a","s","e"," ">>
                                    \o FormatDecimal(plReleaseID) \o <<":"," ">>, a.err))
                /\ UNCHANGED <<plRelease, plToPull>>
           ELSE PullSelect(a.rel, plReleaseID)
    /\ UNCHANGED <<plFlags, plLedger, plTotal, plReleaseID, plIdx, plPulled>>
    /\ UNCHANGED exceptPl

\* release, releaseID, err = rmClient.GetLatestRelease(ctx, avs, operatorSetID)
PullGetLatestRelease ==
    /\ plpc = "GetLatestRelease"
    /\ \E a \in GetLatestReleaseAnswers(plLedger) :
        /\ plCalls' = Append(plCalls, PullCall("GetLatestRelease", <<>>, ~a.err.isErr))
        /\ IF a.err.isErr
           THEN /\ PullReturn(PullLatestError(a.err))
                /\ UNCHANGED <<plRelease, plReleaseID, plToPull>>
           ELSE /\ plReleaseID' = a.id
                /\ PullSelect(a.rel, a.id)
    /\ UNCHANGED <<plFlags, plLedger, plTotal, plIdx, plPulled>>
    /\ UNCHANGED exceptPl

\* one round of `for i, artifact := range artifactsToPull`
PullArtifact ==
    /\ plpc = "loop"
    /\ plIdx <= Len(plToPull)
    /\ LET artifact == plToPull[plIdx]
           built == BuildReference(artifact.Registry,
                                   Digest32ToSha256String(artifact.Digest32))
       IN  IF built.err.isErr
           THEN /\ PullReturn(MsgBuildReferenceFailed(plIdx - 1, built.err))
                /\ UNCHANGED <<plCalls, plIdx, plPulled>>
           ELSE \E a \in DockerPullAnswers :
                /\ plCalls' = Append(plCalls,
                                     PullCall("docker pull", built.ref, ~a.err.isErr))
                /\ IF a.err.isErr
                   THEN /\ PullReturn(MsgPullFailed(built.ref, a.err, a.output))
                        /\ UNCHANGED <<plIdx, plPulled>>
                   ELSE /\ plIdx' = plIdx + 1
                        /\ plPulled' = Append(plPulled, built.ref)
                        /\ UNCHANGED <<plErr, plpc>>
    /\ UNCHANGED <<plFlags, plLedger, plTotal, plRelease, plReleaseID, plToPull>>
    /\ UNCHANGED exceptPl

\* the loop is over: the summary is printed, return nil
PullSummary ==
    /\ plpc = "loop"
    /\ plIdx > Len(plToPull)
    /\ PullReturn(NilError)
    /\ UNCHANGED <<plFlags, plLedger, plTotal, plRelease, plReleaseID, plToPull,
                   plIdx, plPulled, plCalls>>
    /\ UNCHANGED exceptPl

NextPull ==
    \/ PullGetTotalReleases
    \/ PullGetRelease
    \/ PullGetLatestRelease
    \/ PullArtifact
    \/ PullSummary

SpecPull == InitPull /\ [][NextPull]_vars

(***************************************************************************)
(* Properties of the reference resolver (checked under SpecRef)            *)
(***************************************************************************)

\* C5: BuildReference returns registry unchanged, with no error, whenever
\* registry contains "@sha256:", whatever the digest string is (malformed
\* and empty ones included): the passthrough check precedes digest validation.
C5_PassthroughBeforeValidation ==
    (refCalled = "BuildReference" /\ Contains(refRegistry, AtSha256))
        => (refOut.err = NilError /\ refOut.ref = refRegistry)

C5_Witness ==
    /\ refCalled = "BuildReference"
    /\ Contains(refRegistry, AtSha256)
    /\ ~HasPrefix(refDigest, Sha256Prefix)
    /\ refDigest # <<>>
    /\ refOut.ref = refRegistry

\* C6 as claimed: BuildReference fails with InvalidDigestFormat whenever
\* registry has no embedded "@sha256:" and digest does not start with "sha256:".
C6_Original ==
    (/\ refCalled = "BuildReference"
     /\ ~Contains(refRegistry, AtSha256)
     /\ ~HasPrefix(refDigest, Sha256Prefix))
        => (refOut.err = ErrInvalidDigestFormat /\ refOut.ref = <<>>)

\* C6 amended: BuildReference fails with InvalidDigestFormat whenever registry
\* is non-empty, has no embedded "@sha256:", and digest does not start with
\* "sha256:".
C6_InvalidDigestFormat ==
    (/\ refCalled = "BuildReference"
     /\ refRegistry # <<>>
     /\ ~Contains(refRegistry, AtSha256)
     /\ ~HasPrefix(refDigest, Sha256Prefix))
        => (refOut.err = ErrInvalidDigestFormat /\ refOut.ref = <<>>)

C6_Witness ==
    /\ refCalled = "BuildReference"
    /\ refRegistry # <<>>
    /\ ~Contains(refRegistry, AtSha256)
    /\ ~HasPrefix(refDigest, Sha256Prefix)
    /\ refOut.err = ErrInvalidDigestFormat

\* C7: BuildReference with an empty registry fails with EmptyRegistry for
\* every digest string, valid or not.
C7_EmptyRegistry ==
    (refCalled = "BuildReference" /\ refRegistry = <<>>)
        => (refOut.err = ErrEmptyRegistry /\ refOut.ref = <<>>)

C7_Witness ==
    /\ refCalled = "BuildReference"
    /\ refRegistry = <<>>
    /\ HasPrefix(refDigest, Sha256Prefix)
    /\ Len(refDigest) = 71
    /\ refOut.err = ErrEmptyRegistry

\* C8: round trip: for every 32-byte digest d and every non-empty registry r
\* without an embedded digest, BuildReference(r, Digest32ToSha256String(d))
\* succeeds and equals r + "@" + Digest32ToSha256String(d).
C8_RoundTrip ==
    (/\ refCalled = "ResolveReference"
     /\ refRegistry # <<>>
     /\ ~Contains(refRegistry, AtSha256))
        => (/\ refOut.err = NilError
            /\ refOut.ref = refRegistry \o <<"@">> \o refStr
            /\ Len(refOut.ref) = Len(refRegistry) + 72)

C8_Witness ==
    /\ refCalled = "ResolveReference"
    /\ refRegistry # <<>>
    /\ ~Contains(refRegistry, AtSha256)
    /\ Len(refD32) = 32
    /\ refOut.err = NilError

\* the value of a lowercase hexadecimal digit
HexDigitValue(c) == (CHOOSE k \in DOMAIN hextable : hextable[k] = c) - 1

IsLowerHexDigit(c) == \E k \in DOMAIN hextable : hextable[k] = c

\* C9: for every 32-byte d, Digest32ToSha256String(d) has length exactly 71,
\* starts with "sha256:", and its remaining 64 characters are the lowercase
\* hexadecimal encoding of d byte for byte; distinct digests give distinct
\* strings.
C9_DigestString ==
    (refCalled = "Digest32ToSha256String") =>
        /\ Len(refStr) = 71
        /\ SubSeq(refStr, 1, 7) = <<"s", "h", "a", "2", "5", "6", ":">>
        /\ \A i \in 1..32 :
              /\ IsLowerHexDigit(refStr[7 + 2 * i - 1])
              /\ IsLowerHexDigit(refStr[7 + 2 * i])
              /\ 16 * HexDigitValue(refStr[7 + 2 * i - 1])
                    + HexDigitValue(refStr[7 + 2 * i]) = refD32[i]
        /\ \A e \in Digest32Samples :
              e # refD32 => Digest32ToSha256String(e) # refStr

C9_Witness ==
    /\ refCalled = "Digest32ToSha256String"
    /\ refD32 = IotaDigest
    /\ Len(refStr) = 71

(***************************************************************************)
(* Properties of Controller.Execute (checked under Spec)                   *)
(***************************************************************************)

\* the ledger read of this Execute has returned a release
ReleaseResolved == rmCalls # <<>> /\ ~rmCalls[1].err.isErr

\* C1: Execute on a resolved release with zero artifacts fails with the
\* NoArtifactsInRelease error for every upgradeByTime, whether the release was
\* fetched as latest or by id, and neither Pull nor Run is invoked.
C1_NoArtifactsInRelease ==
    (ReleaseResolved /\ Len(rel.Artifacts) = 0) =>
        /\ pc \in {"resolve", "done"}
        /\ pc = "done" => execErr = Errorf(<<"n","o"," ","a","r","t","i","f","a","c","t","s"," ","i","n"," ","r","e","l","e","a","s","e">>)
        /\ pullCalls = <<>>
        /\ runCalls = <<>>

C1_Witness ==
    /\ pc = "done"
    /\ ReleaseResolved
    /\ rmCalls[1].op = "GetRelease"
    /\ Len(rel.Artifacts) = 0
    /\ rel.UpgradeByTime > 0
    /\ execErr.isErr

\* the reference and the digest string of artifact a
ArtifactText(a) == a.Registry \o <<"@">> \o Sha256Prefix \o EncodeToString(a.Digest32)

\* the references handed to the container runtime by this Execute
RuntimeReferences ==
    {pullCalls[i].ref : i \in DOMAIN pullCalls} \cup {runCalls[i].ref : i \in DOMAIN runCalls}

\* C2: for every release with two or more artifacts, the reference Execute
\* hands to Pull and to Run is built from the first artifact only (its
\* registry and digest); the registry and the digest of a later artifact
\* occur in it only where the first artifact has them too.
C2_FirstArtifactOnly ==
    (ReleaseResolved /\ Len(rel.Artifacts) >= 2) =>
        \A r \in RuntimeReferences :
            LET first == rel.Artifacts[1]
            IN  /\ r = IF Contains(first.Registry, AtSha256)
                       THEN first.Registry
                       ELSE ArtifactText(first)
                /\ \A j \in 2..Len(rel.Artifacts) :
                      LET later == rel.Artifacts[j]
                      IN  /\ ~Contains(ArtifactText(first), later.Registry)
                                => ~Contains(r, later.Registry)
                          /\ ~Contains(ArtifactText(first), EncodeToString(later.Digest32))
                                => ~Contains(r, EncodeToString(later.Digest32))

C2_Witness ==
    /\ ReleaseResolved
    /\ Len(rel.Artifacts) >= 2
    /\ rel.Artifacts[1].Registry = <<"f","i","r","s","t",".","i","o","/","i","m","a","g","e">>
    /\ rel.Artifacts[2].Registry = <<"s","e","c","o","n","d",".","i","o","/","i","m","a","g","e">>
    /\ runCalls # <<>>
    /\ pullCalls # <<>>

\* C3: the environment Execute passes to Run always contains the keys
\* AVS_ADDRESS, OPERATOR_SET_ID, RELEASE_ID and UPGRADE_BY_TIME, and for each
\* key of the caller-supplied environment the passed value is the caller's
\* value, also when the key is one of the four.
C3_InjectedEnvironment ==
    \A i \in DOMAIN runCalls :
        LET env == runCalls[i].opts.Env
        IN  /\ {"AVS_ADDRESS", "OPERATOR_SET_ID", "RELEASE_ID", "UPGRADE_BY_TIME"}
                  \subseteq DOMAIN env
            /\ \A k \in DOMAIN cfg.Env : env[k] = cfg.Env[k]

C3_Witness ==
    /\ runCalls # <<>>
    /\ "RELEASE_ID" \in DOMAIN cfg.Env
    /\ "TEST_ENV" \in DOMAIN cfg.Env
    /\ runCalls[1].opts.Env["RELEASE_ID"] = <<"p","i","n","n","e","d">>
    /\ runCalls[1].opts.Env["UPGRADE_BY_TIME"] = <<"1","2","3","4","5","6">>

\* C4: Run is invoked only after Pull of the identical reference has returned
\* successfully; when Pull fails, Run is never invoked and Execute returns an
\* error; when Run fails, Execute returns an error.
C4_PullThenRun ==
    /\ \A i \in DOMAIN runCalls :
          \E j \in DOMAIN pullCalls :
              pullCalls[j].ref = runCalls[i].ref /\ ~pullCalls[j].err.isErr
    /\ (\E j \in DOMAIN pullCalls : pullCalls[j].err.isErr) =>
          (runCalls = <<>> /\ pc = "done" /\ execErr.isErr)
    /\ (\E i \in DOMAIN runCalls : runCalls[i].err.isErr) =>
          (pc = "done" /\ execErr.isErr)

C4_Witness ==
    /\ pc = "done"
    /\ Len(pullCalls) = 1
    /\ Len(runCalls) = 1
    /\ ~pullCalls[1].err.isErr
    /\ runCalls[1].err.isErr
    /\ runCalls[1].ref = pullCalls[1].ref

\* C10: when Execute is asked for a specific release id and the ledger read
\* fails with an index-out-of-range error, Execute fails with ReleaseNotFound
\* whose message names the requested id, and this outcome differs from the
\* no-releases outcome of a latest request.
C10_ReleaseNotFound ==
    (/\ pc = "done"
     /\ ~cfg.ReleaseID.isNil
     /\ rmCalls # <<>>
     /\ rmCalls[1].err.isErr
     /\ Contains(rmCalls[1].err.msg, <<"a","r","r","a","y"," ","o","u","t","-","o","f","-","b","o","u","n","d","s">>)) =>
        /\ execErr = Errorf(<<"r","e","l","e","a","s","e"," ","I","D"," ">> \o FormatDecimal(cfg.ReleaseID.val)
                            \o <<" ","d","o","e","s"," ","n","o","t"," ","e","x","i","s","t">>)
        /\ ~Contains(execErr.msg, <<"n","o"," ","r","e","l","e","a","s","e","s">>)
        /\ execErr # LatestReleaseError(cfg, rmCalls[1].err)

C10_Witness ==
    /\ pc = "done"
    /\ cfg.ReleaseID = ReleaseIDPtr(42)
    /\ rmCalls # <<>>
    /\ Contains(rmCalls[1].err.msg, <<"a","r","r","a","y"," ","o","u","t","-","o","f","-","b","o","u","n","d","s">>)
    /\ Contains(execErr.msg, <<"4","2">>)

\* the ledger read of this Execute has failed with a no-releases signature
NoReleasesSignature ==
    /\ rmCalls # <<>>
    /\ rmCalls[1].err.isErr
    /\ \/ Contains(rmCalls[1].err.msg, <<"a","r","i","t","h","m","e","t","i","c"," ","u","n","d","e","r","f","l","o","w">>)
       \/ Contains(rmCalls[1].err.msg, <<"N","o","R","e","l","e","a","s","e","s">>)

\* the message is the NoReleasesAvailable guidance with its remediation text
IsNoReleasesAvailable(e) ==
    /\ e.isErr
    /\ HasPrefix(e.msg, <<"n","o"," ","r","e","l","e","a","s","e","s"," ","a","v","a","i","l","a","b","l","e"," ","f","o","r"," ","t","h","i","s"," ","o","p","e","r","a","t","o","r"," ","s","e","t">>)
    /\ Contains(e.msg, <<"f","l","i","c","k","r"," ","p","u","s","h"," ","-","-","i","m","a","g","e"," ","<","y","o","u","r","-","i","m","a","g","e",">">>)

C12_UnknownFailurePassedThrough ==
    (/\ pc = "done"
     /\ rmCalls # <<>>
     /\ rmCalls[1].err.isErr
     /\ ~Contains(rmCalls[1].err.msg, <<"a","r","i","t","h","m","e","t","i","c"," ","u","n","d","e","r","f","l","o","w">>)
     /\ ~Contains(rmCalls[1].err.msg, <<"N","o","R","e","l","e","a","s","e","s">>)
     /\ ~Contains(rmCalls[1].err.msg, <<"a","r","r","a","y"," ","o","u","t","-","o","f","-","b","o","u","n","d","s">>)) =>
        /\ execErr.isErr
        /\ execErr.msg =
              (IF cfg.ReleaseID.isNil
               THEN <<"f","a","i","l","e","d"," ","t","o"," ","g","e","t"," ","l","a","t","e","s","t"," ","r","e","l","e","a","s","e",":"," ">>
               ELSE <<"f","a","i","l","e","d"," ","t","o"," ","g","e","t"," ","r","e","l","e","a","s","e"," ">> \o FormatDecimal(cfg.ReleaseID.val)
                    \o <<":"," ">>)
              \o rmCalls[1].err.msg

C12_Witness ==
    /\ pc = "done"
    /\ rmCalls # <<>>
    /\ cfg.ReleaseID.isNil
    /\ rmCalls[1].err.msg = <<"n","e","t","w","o","r","k"," ","e","r","r","o","r">>
    /\ Contains(execErr.msg, <<"n","e","t","w","o","r","k"," ","e","r","r","o","r">>)

\* C13 as claimed: whenever Execute fails with NoReleasesAvailable or
\* NoArtifactsInRelease, the message contains the remediation command to
\* publish a release and echoes the AVS address and the operator set id.
C13_Original ==
    (/\ pc = "done"
     /\ execErr.isErr
     /\ \/ HasPrefix(execErr.msg, <<"n","o"," ","r","e","l","e","a","s","e","s"," ","a","v","a","i","l","a","b","l","e">>)
        \/ HasPrefix(execErr.msg, <<"n","o"," ","a","r","t","i","f","a","c","t","s"," ","i","n"," ","r","e","l","e","a","s","e">>)) =>
        /\ Contains(execErr.msg, <<"f","l","i","c","k","r"," ","p","u","s","h"," ","-","-","i","m","a","g","e"," ","<","y","o","u","r","-","i","m","a","g","e",">">>)
        /\ Contains(execErr.msg, AddressHex(cfg.AVS))
        /\ Contains(execErr.msg, FormatDecimal(cfg.OperatorSetID))

\* C21: nothing is retried.  One Execute issues exactly one ledger read,
\* GetRelease when a release id is given and GetLatestRelease otherwise; Pull
\* and Run are called at most once each; after the first failure of a step
\* no further collaborator is called.
C21_NothingRetried ==
    /\ Len(rmCalls) <= 1
    /\ Len(pullCalls) <= 1
    /\ Len(runCalls) <= 1
    /\ pc \in {"resolve", "pull", "run", "done"} => Len(rmCalls) = 1
    /\ Len(rmCalls) >= 1
          => /\ rmCalls[1].op = IF cfg.ReleaseID.isNil
                                THEN "GetLatestRelease" ELSE "GetRelease"
             /\ rmCalls[1].err.isErr
                   => pc = "done" /\ pullCalls = <<>> /\ runCalls = <<>>
    /\ Len(pullCalls) >= 1
          => /\ ~rmCalls[1].err.isErr
             /\ pullCalls[1].err.isErr => pc = "done" /\ runCalls = <<>>
    /\ Len(runCalls) >= 1
          => /\ Len(pullCalls) = 1
             /\ ~pullCalls[1].err.isErr
             /\ pc = "done"
    /\ (pc = "done" /\ execErr.isErr /\ pullCalls = <<>>) => runCalls = <<>>

\* an Execute for a given release id has returned after its pull failed: one
\* GetRelease, one Pull, no Run
C21_Witness ==
    /\ pc = "done"
    /\ ~cfg.ReleaseID.isNil
    /\ Len(rmCalls) = 1
    /\ rmCalls[1].op = "GetRelease"
    /\ Len(pullCalls) = 1
    /\ pullCalls[1].err.isErr
    /\ runCalls = <<>>
    /\ execErr.isErr

(***************************************************************************)
(* Properties of the signer factory (checked under SpecSigner)             *)
(***************************************************************************)

MalformedHex(k) ==
    \/ Len(k) # 64
    \/ \E i \in 1..Len(k) : FromHexChar(k[i]) = -1

\* the address of the account of a key written in hex, for the known accounts
AddressOfHexKey(k) ==
    CASE k \in { <<"a","c","0","9","7","4","b","e","c","3","9","a","1","7","e","3","6","b","a","4","a","6","b","4","d","2","3","8","f","f","9","4","4","b","a","c","b","4","7","8","c","b","e","d","5","e","f","c","a","e","7","8","4","d","7","b","f","4","f","2","f","f","8","0">>,
                 <<"A","C","0","9","7","4","B","E","C","3","9","A","1","7","E","3","6","B","A","4","A","6","B","4","D","2","3","8","F","F","9","4","4","B","A","C","B","4","7","8","C","B","E","D","5","E","F","C","A","E","7","8","4","D","7","B","F","4","F","2","F","F","8","0">> }
           -> <<243,159,214,229,26,173,136,246,244,206,106,184,130,114,121,207,255,185,34,102>>
      [] k = <<"5","9","c","6","9","9","5","e","9","9","8","f","9","7","a","5","a","0","0","4","4","9","6","6","f","0","9","4","5","3","8","9","d","c","9","e","8","6","d","a","e","8","8","c","7","a","8","4","1","2","f","4","6","0","3","b","6","b","7","8","6","9","0","d">>
           -> <<112,153,121,112,197,24,18,220,58,1,12,125,1,181,14,13,23,220,121,200>>
      [] k = <<"0","0","0","0","0","0","0","0","0","0","0","0","0","0","0","0","0","0","0","0","0","0","0","0","0","0","0","0","0","0","0","0","0","0","0","0","0","0","0","0","0","0","0","0","0","0","0","0","0","0","0","0","0","0","0","0","0","0","0","0","0","0","0","1">>
           -> <<126,95,69,82,9,26,105,18,93,93,252,183,184,194,101,144,41,57,91,223>>
      [] OTHER -> <<>>

\* C24: NewECDSASignerFromHex gives the same signer address for a hex key with
\* the "0x" prefix and for the same key without it, the address being the one
\* of the key's account; for malformed hex both calls fail with an error that
\* starts with "invalid private key: " and return no signer.
C24_PrefixIrrelevant ==
    sigCalled = "NewECDSASignerFromHex" =>
        /\ sigPair.bare.err.isErr <=> sigPair.prefixed.err.isErr
        /\ ~sigPair.bare.err.isErr =>
              /\ sigPair.bare.signer.present
              /\ sigPair.prefixed.signer.present
              /\ sigPair.bare.signer.address = sigPair.prefixed.signer.address
              /\ sigPair.bare.signer.address = AddressOfHexKey(sigPair.hexKey)
              /\ Len(sigPair.bare.signer.address) = 20
        /\ MalformedHex(sigPair.hexKey) =>
              \A r \in {sigPair.bare, sigPair.prefixed} :
                  /\ r.err.isErr
                  /\ HasPrefix(r.err.msg, <<"i","n","v","a","l","i","d"," ","p","r","i","v","a","t","e"," ","k","e","y",":"," ">>)
                  /\ ~r.signer.present

\* the test key, written without the prefix, has given the test's address twice
C24_Witness ==
    /\ sigCalled = "NewECDSASignerFromHex"
    /\ sigPair.hexKey = <<"a","c","0","9","7","4","b","e","c","3","9","a","1","7","e","3","6","b","a","4","a","6","b","4","d","2","3","8","f","f","9","4","4","b","a","c","b","4","7","8","c","b","e","d","5","e","f","c","a","e","7","8","4","d","7","b","f","4","f","2","f","f","8","0">>
    /\ ~sigPair.prefixed.err.isErr
    /\ sigPair.prefixed.signer.address = <<243,159,214,229,26,173,136,246,244,206,106,184,130,114,121,207,255,185,34,102>>
    /\ sigPair.bare.signer.address = <<243,159,214,229,26,173,136,246,244,206,106,184,130,114,121,207,255,185,34,102>>

(***************************************************************************)
(* Properties of `context set` (checked under SpecSet)                     *)
(***************************************************************************)
\* the contexts of the config file, when it can be read
PersistedContexts ==
    IF disk.status = "valid"
    THEN {disk.cfg.Contexts[n] : n \in DOMAIN disk.cfg.Contexts}
    ELSE {}

\* C15: starting from a context with at most one signer form, after any
\* `context set`, successful or failed, no persisted context has both a
\* private key and a keystore path.
C15_OneSignerForm ==
    \A c \in PersistedContexts :
        ~(c.ECDSAPrivateKey # <<>> /\ c.KeystorePath # <<>>)

\* a context holding a private key is given --keystore-path and is saved with
\* the keystore path alone; and --ecdsa-private-key together with
\* --keystore-path has been saved too
C15_Witness ==
    /\ setCalled
    /\ setErr = NilError
    /\ setFlags.keystorePath = PathFlag
    /\ diskBefore.status = "valid"
    /\ disk.status = "valid"
    /\ DefaultName \in DOMAIN diskBefore.cfg.Contexts
    /\ diskBefore.cfg.Contexts[DefaultName].ECDSAPrivateKey = KeyFlag
    /\ disk.cfg.Contexts[DefaultName].KeystorePath = PathFlag
    /\ disk.cfg.Contexts[DefaultName].ECDSAPrivateKey = <<>>

\* `context set` has returned one of its three refusals that come after
\* flags were processed
SetRefused ==
    /\ setCalled
    /\ setErr.isErr
    /\ \/ HasPrefix(setErr.msg, <<"i","n","v","a","l","i","d"," ","e","n","v"," ","f","o","r","m","a","t",":"," ">>)
       \/ setErr.msg = <<"k","e","y","s","t","o","r","e","-","p","a","s","s","w","o","r","d"," ","r","e","q","u","i","r","e","s"," ","k","e","y","s","t","o","r","e","-","p","a","t","h"," ","t","o"," ","b","e"," ","s","e","t">>
       \/ setErr.msg = <<"n","o"," ","v","a","l","u","e","s"," ","p","r","o","v","i","d","e","d"," ","t","o"," ","u","p","d","a","t","e">>

\* C28: when `context set` returns an error for an --env entry without "=",
\* for --keystore-password without a keystore path, or for no value provided,
\* the config file is what it was before the invocation: what earlier flags
\* changed in memory is not saved.
C28_RefusalSavesNothing ==
    SetRefused => disk = diskBefore

\* --env A=1 was taken in memory, --env NOEQUALS was refused, and the file, which
\* could be loaded, has no variable A
C28_Witness ==
    /\ setCalled
    /\ setFlags.env = <<<<"A","=","1">>, <<"N","O","E","Q","U","A","L","S">>>>
    /\ setErr = [isErr |-> TRUE,
                 msg |-> <<"i","n","v","a","l","i","d"," ","e","n","v"," ","f","o","r","m","a","t",":"," ","N","O","E","Q","U","A","L","S"," ","(","e","x","p","e","c","t","e","d"," ","K","E","Y","=","V","A","L","U","E",")">>]
    /\ disk.status = "valid"
    /\ disk = diskBefore
    /\ DefaultName \in DOMAIN disk.cfg.Contexts
    /\ <<"A">> \notin DOMAIN disk.cfg.Contexts[DefaultName].EnvironmentVars

(***************************************************************************)
(* Properties of the write operations (checked under SpecWrite)            *)
(***************************************************************************)
\* the calls write operation n made, in order
OpCalls(n) ==
    LET mine == SelectSeq(wLog, LAMBDA e : e.n = n)
    IN  [i \in 1..Len(mine) |-> mine[i].call]

IsPrefix(s, t) == Len(s) <= Len(t) /\ SubSeq(t, 1, Len(s)) = s

\* the transport queries of a write operation
TransportQueries == {"ChainID", "PendingNonceAt", "SuggestGasPrice"}

\* the text that names a failed query in the error of the operation
QueryFailureText(call) ==
    CASE call = "ChainID" -> <<"f","a","i","l","e","d"," ","t","o"," ","g","e","t"," ","c","h","a","i","n"," ","I","D",":"," ","c","o","n","n","e","c","t","i","o","n"," ","r","e","f","u","s","e","d">>
      [] call = "PendingNonceAt" -> <<"f","a","i","l","e","d"," ","t","o"," ","g","e","t"," ","n","o","n","c","e",":"," ","c","o","n","n","e","c","t","i","o","n"," ","r","e","f","u","s","e","d">>
      [] call = "SuggestGasPrice" -> <<"f","a","i","l","e","d"," ","t","o"," ","g","e","t"," ","g","a","s"," ","p","r","i","c","e",":"," ","c","o","n","n","e","c","t","i","o","n"," ","r","e","f","u","s","e","d">>

\* C16: both write operations query the chain id, then the pending nonce,
\* then the gas price, then sign, then submit; a failed query is the last
\* call of its operation, which returns no transaction and an error naming
\* the failed query.
C16_WriteProtocol ==
    /\ \A n \in 1..wCount :
          IsPrefix(OpCalls(n), <<"ChainID", "PendingNonceAt", "SuggestGasPrice",
                                 "Signer", "SignTransaction", "SendTransaction">>)
    /\ \A i \in 1..Len(wLog) :
          (wLog[i].call \in TransportQueries /\ ~wLog[i].ok)
          => /\ \A j \in (i + 1)..Len(wLog) : wLog[j].n # wLog[i].n
             /\ wLog[i].n = wCount
                => /\ wpc = "returned"
                   /\ wRet = NilTransaction
                   /\ wErr = [isErr |-> TRUE, msg |-> QueryFailureText(wLog[i].call)]
    /\ Len(ledger.mined) + Len(ledger.pending)
          = Cardinality({i \in 1..Len(wLog) :
                            wLog[i].call = "SendTransaction" /\ wLog[i].ok})

\* one operation of each kind: PushRelease ran the whole protocol and
\* PublishMetadataURI has just returned after its nonce query failed
C16_Witness ==
    /\ wCount = 2
    /\ wOp = "PublishMetadataURI"
    /\ wpc = "returned"
    /\ OpCalls(1) = <<"ChainID", "PendingNonceAt", "SuggestGasPrice",
                      "Signer", "SignTransaction", "SendTransaction">>
    /\ wLog[6].val.tx.method = "PushRelease"
    /\ OpCalls(2) = <<"ChainID", "PendingNonceAt">>
    /\ ~wLog[Len(wLog)].ok

\* the accepted submissions, in order
AcceptedSends ==
    SelectSeq(wLog, LAMBDA e : e.call = "SendTransaction" /\ e.ok)

\* C17: the transactions one client submits one after the other for its
\* signer carry different nonces (the next free ones of the account), also
\* while earlier ones are still unconfirmed.
C17_DistinctNonces ==
    /\ \A i, j \in 1..Len(AcceptedSends) :
          i # j => AcceptedSends[i].val.tx.nonce # AcceptedSends[j].val.tx.nonce
    /\ \A i \in 1..Len(AcceptedSends) :
          AcceptedSends[i].val.tx.nonce = ledger.base + i - 1

\* two transactions were accepted and neither has been mined
C17_Witness ==
    /\ Len(AcceptedSends) = 2
    /\ Len(ledger.pending) = 2
    /\ ledger.mined = <<>>

\* C18: each signature is made for the chain id the transport answered in
\* the same operation; no chain id of an earlier operation is used.
C18_ChainIDPerOperation ==
    \A i \in 1..Len(wLog) :
        wLog[i].call = "SignTransaction"
        => \E j \in 1..(i - 1) :
              /\ wLog[j].call = "ChainID"
              /\ wLog[j].ok
              /\ wLog[j].n = wLog[i].n
              /\ wLog[i].val.chainID = wLog[j].val
              /\ \A k \in (j + 1)..(i - 1) : wLog[k].call # "ChainID"

\* two operations signed, the first for chain 1 and the second for chain 31337
C18_Witness ==
    \E i, j \in 1..Len(wLog) :
        /\ i < j
        /\ wLog[i].call = "SignTransaction"
        /\ wLog[j].call = "SignTransaction"
        /\ wLog[i].val.chainID = 1
        /\ wLog[j].val.chainID = 31337

\* C19: the signing callback calls SignTransaction exactly when it is asked
\* to sign for the address of the attached signer; asked for another address
\* it fails with "unexpected signer address", and the operation makes no
\* further call.
C19_SignsOwnAddressOnly ==
    /\ \A i \in 1..Len(wLog) :
          wLog[i].call = "Signer"
          => IF wLog[i].val = wSigner.address
             THEN /\ i < Len(wLog)
                  /\ wLog[i + 1].call = "SignTransaction"
                  /\ wLog[i + 1].n = wLog[i].n
                  /\ wLog[i + 1].val.from = wSigner.address
             ELSE /\ ~wLog[i].ok
                  /\ \A j \in (i + 1)..Len(wLog) : wLog[j].n # wLog[i].n
                  /\ wLog[i].n = wCount
                     => /\ wpc = "returned"
                        /\ wRet = NilTransaction
                        /\ wErr.isErr
                        /\ Contains(wErr.msg, <<"u","n","e","x","p","e","c","t","e","d"," ","s","i","g","n","e","r"," ","a","d","d","r","e","s","s">>)
    /\ \A i \in 1..Len(wLog) :
          wLog[i].call = "SignTransaction"
          => /\ i > 1
             /\ wLog[i - 1].call = "Signer"
             /\ wLog[i - 1].n = wLog[i].n
             /\ wLog[i - 1].val = wSigner.address

\* the callback was asked to sign for an address that is not the signer's,
\* after an operation in which it signed for the signer's
C19_Witness ==
    /\ wLog # <<>>
    /\ wLog[Len(wLog)].call = "Signer"
    /\ wLog[Len(wLog)].val = AddressB
    /\ wSigner.address # AddressB
    /\ \E i \in 1..Len(wLog) : wLog[i].call = "SignTransaction"

\* C27: on a client without a signer a write operation returns at once, with
\* no transaction and the signer-required error of the operation; the
\* transport is never asked for the chain id, the nonce or the gas price, and
\* nothing is signed or submitted.
C27_SignerRequiredFirst ==
    wSigner.typ = "nil" =>
        /\ wLog = <<>>
        /\ ledger.mined = <<>>
        /\ ledger.pending = <<>>
        /\ wpc \in {"idle", "returned"}
        /\ wCount > 0 =>
              /\ wpc = "returned"
              /\ wRet = NilTransaction
              /\ wErr.isErr
              /\ wOp = "PublishMetadataURI"
                    => wErr.msg = <<"s","i","g","n","e","r"," ","r","e","q","u","i","r","e","d"," ","f","o","r"," ","p","u","b","l","i","s","h","i","n","g"," ","m","e","t","a","d","a","t","a"," ","U","R","I">>
              /\ wOp = "PushRelease"
                    => wErr.msg = <<"s","i","g","n","e","r"," ","r","e","q","u","i","r","e","d"," ","f","o","r"," ","p","u","s","h","i","n","g"," ","r","e","l","e","a","s","e","s">>

\* two operations in a row have been refused on a client without a signer
C27_Witness ==
    /\ wSigner.typ = "nil"
    /\ wCount = 2
    /\ wOp = "PushRelease"
    /\ wpc = "returned"
    /\ wErr.msg = <<"s","i","g","n","e","r"," ","r","e","q","u","i","r","e","d"," ","f","o","r"," ","p","u","s","h","i","n","g"," ","r","e","l","e","a","s","e","s">>
    /\ wLog = <<>>

(***************************************************************************)
(* Properties of the commands' connections (checked under SpecCmd)         *)
(***************************************************************************)
\* C20: when a command has returned, with or without an error, every
\* connection it dialed is closed, also when the construction of the client
\* failed after the dial.
C20_Original ==
    cpc = "returned" => \A i \in 1..Len(conns) : ~conns[i].open

\* C30: GetReleaseManagerAddress takes an empty or all-zero provided address
\* as unset and asks the transport for the chain id to find the default; a
\* provided non-zero address is returned without any connection; when it
\* succeeds the address is never the all-zero address.
C30_Original ==
    cpc = "prepare" =>
        /\ cAddr # ZeroAddress
        /\ cProvided \in {<<>>, ZeroAddressHex}
              => /\ Len(conns) = 1
                 /\ conns[1] = Connection("GetChainID", FALSE)
        /\ cProvided = <<"0","x","1","2","3","4","5","6","7","8","9","0","1","2","3","4","5","6","7","8","9","0","1","2","3","4","5","6","7","8","9","0","1","2","3","4","5","6","7","8","9","0">>
              => /\ conns = <<>>
                 /\ cAddr = <<18,52,86,120,144,18,52,86,120,144,18,52,86,120,144,18,52,86,120,144>>

(***************************************************************************)
(* Properties of the command push (checked under SpecPush)                 *)
(***************************************************************************)
\* the positions in pCalls of the calls named call
CallsOf(call) == {i \in 1..Len(pCalls) : pCalls[i].call = call}

\* C22: push calls PushRelease only after GetMetadataURI answered a non-empty
\* URI; when the URI is unset or the read fails, push returns an error and
\* makes no further call.
C22_MetadataURIBeforeRelease ==
    /\ \A i \in CallsOf("PushRelease") :
          \E j \in CallsOf("GetMetadataURI") :
              j < i /\ pCalls[j].ok /\ pCalls[j].val # <<>>
    /\ \A j \in CallsOf("GetMetadataURI") :
          (~pCalls[j].ok \/ pCalls[j].val = <<>>)
          => /\ j = Len(pCalls)
             /\ ppc = "returned"
             /\ pErr.isErr
             /\ pReleases = <<>>
             /\ Contains(pErr.msg, IF pCalls[j].ok
                                   THEN <<"n","o"," ","m","e","t","a","d","a","t","a"," ","U","R","I"," ","s","e","t"," ","f","o","r"," ","t","h","i","s"," ","o","p","e","r","a","t","o","r"," ","s","e","t">>
                                   ELSE <<"f","a","i","l","e","d"," ","t","o"," ","c","h","e","c","k"," ","m","e","t","a","d","a","t","a"," ","U","R","I",":"," ">>)

\* push has returned an error right after GetMetadataURI answered the empty
\* string
C22_Witness ==
    /\ ppc = "returned"
    /\ pCalls # <<>>
    /\ pCalls[Len(pCalls)].call = "GetMetadataURI"
    /\ pCalls[Len(pCalls)].ok
    /\ pCalls[Len(pCalls)].val = <<>>
    /\ pArtifacts # <<>>
    /\ pErr.isErr

\* C29: without --registry, every artifact push records has a non-empty
\* registry, and Digest32ToSha256String with BuildReference give back the
\* reference docker inspect reported for the image.
C29_Original ==
    (pFlags.registry = <<>> /\ pReleases # <<>>)
    => \A i \in 1..Len(pReleases[1].Artifacts) :
          LET a == pReleases[1].Artifacts[i]
          IN  /\ a.Registry # <<>>
              /\ BuildReference(a.Registry, Digest32ToSha256String(a.Digest32))
                    = RefResult(pReported[i], NilError)

(***************************************************************************)
(* Properties of SignMessage (checked under SpecSm)                        *)
(***************************************************************************)
\* C23: a successful SignMessage of either signer returns 65 bytes, r and s
\* as crypto.Sign gave them and a last byte of 27 or 28: 0 and 1 are moved up
\* by 27, 27 and 28 are kept.
C23_SignatureShape ==
    (smCalled /\ ~smOut.err.isErr)
    => /\ Len(smOut.sig) = 65
       /\ SubSeq(smOut.sig, 1, 64) = SubSeq(smRaw.sig, 1, 64)
       /\ smOut.sig[65] \in {27, 28}
       /\ smRaw.sig[65] \in {0, 27} => smOut.sig[65] = 27
       /\ smRaw.sig[65] \in {1, 28} => smOut.sig[65] = 28

\* the keystore signer signed and crypto.Sign had answered 28 already
C23_Witness ==
    /\ smCalled
    /\ smSigner.typ = "*KeystoreSigner"
    /\ ~smOut.err.isErr
    /\ smRaw.sig[65] = 28
    /\ smOut.sig[65] = 28

(***************************************************************************)
(* Properties of the command pull (checked under SpecPull)                 *)
(***************************************************************************)
\* the calls of `docker pull` made so far, in order
DockerPulls == SelectSeq(plCalls, LAMBDA e : e.call = "docker pull")

\* the artifacts of the fetched release the command is to pull
ExpectedArtifacts ==
    IF plFlags.all \/ plRelease.Artifacts = <<>>
    THEN plRelease.Artifacts
    ELSE <<plRelease.Artifacts[1]>>

\* the pullable reference of an artifact and whether it could be built
ReferenceOf(artifact) ==
    BuildReference(artifact.Registry, Digest32ToSha256String(artifact.Digest32))

C26_ValidatedBeforeRead ==
    /\ \A i \in 1..Len(plCalls) :
          plCalls[i].call = "GetRelease"
          => /\ i = 2
             /\ plFlags.releaseIdIsSet
             /\ plCalls[i].arg = plFlags.releaseId
             /\ plTotal > 0
             /\ plFlags.releaseId < plTotal
    /\ (plCalls # <<>> /\ plCalls[1].ok)
          => /\ plTotal = Len(plLedger)
             /\ plTotal = 0
                   => /\ plpc = "returned"
                      /\ plCalls = <<PullCall("GetTotalReleases", <<>>, TRUE)>>
                      /\ plErr.isErr
                      /\ HasPrefix(plErr.msg, <<"n","o"," ","r","e","l","e","a","s","e","s"," ","f","o","u","n","d"," ","f","o","r"," ","t","h","i","s"," ","o","p","e","r","a","t","o","r"," ","s","e","t">>)
             /\ (plTotal > 0 /\ plFlags.releaseIdIsSet /\ plFlags.releaseId >= plTotal)
                   => /\ plpc = "returned"
                      /\ plCalls = <<PullCall("GetTotalReleases", <<>>, TRUE)>>
                      /\ plErr.isErr
                      /\ HasPrefix(plErr.msg, <<"r","e","l","e","a","s","e"," ","I","D"," ">>)
                      /\ Contains(plErr.msg, <<" ","d","o","e","s"," ","n","o","t"," ","e","x","i","s","t"," ","(","t","o","t","a","l"," ","r","e","l","e","a","s","e","s",":"," ">>)
             /\ (plFlags.releaseIdIsSet /\ plFlags.releaseId < plTotal)
                   => \/ plpc = "GetRelease" /\ Len(plCalls) = 1
                      \/ /\ Len(plCalls) >= 2
                         /\ plCalls[2].call = "GetRelease"
                         /\ plCalls[2].arg = plFlags.releaseId

\* release 1 was asked for on a ledger of one release, whose id is 0
C26_Witness ==
    /\ plFlags.releaseIdIsSet
    /\ plFlags.releaseId = 1
    /\ Len(plLedger) = 1
    /\ plpc = "returned"
    /\ plErr = Errorf(<<"r","e","l","e","a","s","e"," ","I","D"," ","1"," ","d","o","e","s"," ","n","o","t"," ","e","x","i","s","t"," ","(","t","o","t","a","l"," ","r","e","l","e","a","s","e","s",":"," ","1",")">>)
    /\ plCalls = <<PullCall("GetTotalReleases", <<>>, TRUE)>>
    /\ plPulled = <<>>

=============================================================================
